---- MODULE Spec2Model ----
(***************************************************************************)
(* Verification model of the Mandala-go data-plane core.                   *)
(*                                                                         *)
(* The module holds several state machines over disjoint groups of         *)
(* variables; each specification moves one group and leaves the others at  *)
(* their initial values:                                                   *)
(*   SpecLife  - the FFI lifecycle (mobile.StartVpn / Start / Stop /       *)
(*               IsRunning, proxy.Start / Stop / IsRunning, Server.serve,  *)
(*               tun.StartStack, Stack.Close, Device.Close), one action    *)
(*               per statement that reads or writes shared state.          *)
(*   SpecNat   - UDPNatManager.GetOrCreate with its fan-out reader and the *)
(*               idle sweeper.                                             *)
(*   SpecTcp   - Stack.handleTCP's two copiers.                            *)
(*   SpecSocks - protocol.HandshakeSocks5 against a byte stream.           *)
(*   SpecTasks - the tasks one core instance spawns, and Stack.Close.      *)
(***************************************************************************)
EXTENDS Integers, Sequences, FiniteSets, TLC

(***************************************************************************)
(* Bounds of the lifecycle model.                                          *)
(***************************************************************************)
\* how many start_vpn calls (each with a fresh TUN descriptor) are explored
MaxVpnStarts == 2
\* how many local servers proxy.Start may create
MaxLocalStarts == 2
\* how many FFI calls the host makes in all
MaxCalls == 3

\* host threads that call the FFI surface
Threads == {1, 2}
\* local ports the host may ask proxy.Start to listen on
Ports == {10809, 10810}

\* the most bytes either side of a relayed TCP session sends
MaxBytes == 2
\* the longest domain name in a CONNECT reply's BND.ADDR
MaxDomain == 2
\* the most application bytes the server sends behind the CONNECT reply
MaxApp == 2
\* how many flows one Stack is seen to forward
MaxFlows == 2
\* how many Dialer.Dial calls are explored
MaxDials == 3
\* how many Write calls on one dialed connection are explored
MaxWrites == 3
\* payload lengths explored reach FragThreshold + MaxOver
MaxOver == 2
\* how many UDP/53 flows (handleRemoteDNS goroutines) are explored
MaxQueries == 2
\* how many tunnelled DNS connections the dialer can open
MaxConns == 3
\* how many TCP flows a started configuration is given
MaxCfgFlows == 2
\* the longest addons block of a VLESS response, and the most bytes the
\* server sends after it
MaxAddons == 2
MaxVlessData == 2
\* how many handleUDP invocations call GetOrCreate for the key at once
MaxCallers == 2
\* how many flows the forwarders deliver
MaxDispatch == 2
\* how many TCP flows run handleTCP side by side
MaxHtFlows == 3
\* how many calls of Dialer.Dial run side by side
MaxDlCalls == 2
\* how many different ECH config lists the DoH server may answer with
MaxEchLists == 2
\* how many local connections the proxy server handles side by side
MaxLsConns == 2

StackIds == 1..MaxVpnStarts
HtFlows == 1..MaxHtFlows
DlCalls == 1..MaxDlCalls
EchLists == 1..MaxEchLists
LsConns == 1..MaxLsConns
SrvIds == 1..MaxLocalStarts
\* a caller, the gonet.UDPConn it created and the UDPSession it constructs
\* share one id
Callers == 1..MaxCallers
Flows == 1..MaxFlows
Dials == 1..MaxDials
\* BuildShadowsocksPayload: salt := make([]byte, 16)
SaltLen == 16
Queries == 1..MaxQueries
ConnIds == 1..MaxConns
\* FragmentConn.Write: len(b) > 50
FragThreshold == 50
\* FragmentConn.Write: b[0] == 0x16, a TLS handshake record
TlsHandshake == 22
\* FragmentConn.Write: cut := 5 + rand.Intn(10)
CutBase == 5
CutSpan == 10
\* the ECH query domains (TLS.ECHPublicName or TLS.ServerName) in use
Domains == {"a.example", "b.example"}

VARIABLES
    \* ---- lifecycle ----
    vpnStack,       \* mobile.vpnStack: 0 is nil, else a stack id
    mu,             \* mobile.mu: 0 is unlocked, else the holding thread
    GlobalServer,   \* proxy.GlobalServer: 0 is nil, else a server id
    stackState,     \* per stack id: "none" | "running" | "closed"
    teardowns,      \* per stack id: how often the body under closeOnce ran
    devFile,        \* per fd: Device.file: "none" | "open" | "closed"
    fdCloses,       \* per fd: how often the descriptor itself was closed
    srvRunning,     \* per server id: Server.running
    srvListener,    \* per server id: "none" | "open" | "closed"
    srvPort,        \* per server id: the port it listens on (0: none)
    srvMu,          \* per server id: Server.mu, 0 or the holding thread
    serveLoop,      \* per server id: "none" | "alive" | "exited"
    nextFd,         \* the next fresh TUN descriptor the host hands in
    nextSrv,        \* the next Server object to allocate
    crashed,        \* an unrecovered panic or fatal error ended the process
    calls,          \* FFI calls made so far
    pc,             \* per thread: the statement it is at
    loc,            \* per thread: its locals
    \* ---- UDP NAT (one key of UDPNatManager.sessions) ----
    natActive,      \* the handleUDP invocations that call GetOrCreate
    natEntry,       \* sessions[key]: 0 is absent, else a session
    sess,           \* per caller: the UDPSession it constructed
    natDials,       \* how often dialer.Dial() was called
    connState,      \* per session: its outbound "none" | "open" | "closed"
    reader,         \* per session: copyRemoteToLocal "none"|"alive"|"exited"
    gpc,            \* per caller: the statement of GetOrCreate it is at
    gexisting,      \* per caller: the session LoadOrStore handed it
    gres,           \* per caller: what GetOrCreate returned
    \* ---- one relayed TCP session (Stack.handleTCP) ----
    tcpImpl,        \* which handleTCP relays: "closeAll" | "waitGroup" | "off"
    tM, tN,         \* bytes the inbound / the outbound will send
    inSent,         \* bytes the inbound application has sent
    inShut,         \* the inbound application has half-closed (FIN)
    upQ,            \* bytes readable on localConn
    outGot,         \* bytes the outbound peer has received
    outSent,        \* bytes the outbound peer has sent
    outClosed,      \* the outbound peer has closed
    downQ,          \* bytes readable on remoteConn
    delivered,      \* bytes written to localConn, in order
    localConn,      \* "open" | "wclosed" (CloseWrite) | "closed"
    remoteConn,     \* "open" | "wclosed" (CloseWrite) | "closed"
    upPc,           \* the inbound->outbound copier: "copy"|"after"|"wait"|"done"
    downPc,         \* the outbound->inbound copier: "copy"|"after"|"done"
    \* ---- one protocol.HandshakeSocks5 call ----
    skUser, skPass, \* the username and password arguments, as bytes
    skStream,       \* every byte the server side sends on conn
    skReplyEnd,     \* how many of them precede the first application byte
    skIn,           \* the bytes of skStream not yet read from conn
    skOut,          \* the messages written to conn, in order
    skPc,           \* the statement HandshakeSocks5 is at
    skRet,          \* "none" | "ok" | an error
    skAtyp,         \* connRespHead[3]
    skLeft,         \* left
    \* ---- the tasks of one tun.Stack ----
    tkState,        \* the Stack: "off" | "running" | "closed"
    tkCancelled,    \* s.cancel() has been called
    tkSweeper,      \* UDPNatManager.cleanupLoop: "none" | "ticking"
    tkTick,         \* the parity of the ticks cleanupLoop has received
    tkDnsMu,        \* s.dnsMu: 0 is free, else the flow whose handler holds it
    tkDnsConn,      \* s.dnsConn: "nil" | "open"
    fKind,          \* per flow: "none" | "tcp" | "udp" | "dns"
    fA,             \* per flow: the inbound-side task (copier, uplink loop,
                    \*   DNS handler): "none" | "run" | "read" | "lock" |
                    \*   "query" | "done"
    fB,             \* per flow: the outbound-side task (copier, NAT reader)
    fLocal,         \* per flow: the gonet conn "none" | "open" | "closed"
    fRemote         \* per flow: the outbound "none" | "open" | "peerclosed" |
                    \*   "closed" (Close() was called on it)

lifeVars == <<vpnStack, mu, GlobalServer, stackState, teardowns, devFile,
              fdCloses, srvRunning, srvListener, srvPort, srvMu, serveLoop,
              nextFd, nextSrv, crashed, calls, pc, loc>>

natVars == <<natActive, natEntry, sess, natDials, connState, reader, gpc,
             gexisting, gres>>

tcpVars == <<tcpImpl, tM, tN, inSent, inShut, upQ, outGot, outSent, outClosed,
             downQ, delivered, localConn, remoteConn, upPc, downPc>>

socksVars == <<skUser, skPass, skStream, skReplyEnd, skIn, skOut, skPc, skRet,
               skAtyp, skLeft>>

taskVars == <<tkState, tkCancelled, tkSweeper, tkTick, tkDnsMu, tkDnsConn, fKind, fA,
              fB, fLocal, fRemote>>

VARIABLES
    \* ---- the process-wide ECH cache and the dials that use it ----
    echCache,       \* the keys of proxy.echCache
    echResolved,    \* per domain: resolveECHConfig calls that succeeded
    echQueries,     \* per domain: resolveECHConfig calls made
    dPc,            \* per dial: the statement of Dialer.Dial it is at
    dDomain,        \* per dial: queryDomain
    dCfg            \* per dial: echConfigList is set

echVars == <<echCache, echResolved, echQueries, dPc, dDomain, dCfg>>

VARIABLES
    \* ---- one dialed connection and the writes made on it ----
    fgOn,           \* Config.Settings.Fragment
    fgActive,       \* FragmentConn.active
    fgCalls,        \* Write calls made so far
    fgMatched,      \* of those, calls with len(b) > 50 and b[0] == 0x16
    fgLastB,        \* the payload of the latest Write call
    fgLastParts,    \* what that call wrote to the underlying connection
    fgLastErr,      \* that call returned an error
    fgStream        \* every byte the underlying connection was given

fragVars == <<fgOn, fgActive, fgCalls, fgMatched, fgLastB, fgLastParts,
              fgLastErr, fgStream>>

VARIABLES
    \* ---- the tunnelled DNS channel of one Stack ----
    dnsMu,          \* s.dnsMu: 0 is free, else the flow whose handler holds it
    dnsConn,        \* s.dnsConn: 0 is nil, else the connection
    dnsOpen,        \* the dialed connections not yet closed
    dnsDialed,      \* connections dialed so far
    dnsOut,         \* per connection: the tokens written to it
    dnsServed,      \* per connection: the queries the resolver answered
    dnsIn,          \* per connection: the tokens waiting to be read
    dnsClosed,      \* Stack.Close has run
    qPc,            \* per flow: the statement of handleRemoteDNS it is at
    qTry,           \* per flow: the loop counter i
    qLen,           \* per flow: the token its length read consumed
    qResp           \* per flow: the query its delivered answer belongs to

dnsVars == <<dnsMu, dnsConn, dnsOpen, dnsDialed, dnsOut, dnsServed, dnsIn,
             dnsClosed, qPc, qTry, qLen, qResp>>

VARIABLES
    \* ---- the goroutines of the flows and what a panic in one does ----
    pnCrashed,      \* an unrecovered panic has terminated the process
    pnKind,         \* per flow: "none" | "tcp" | "udp" | "dns"
    pnHandler,      \* per flow: the goroutine running handleTCP / handleUDP
    pnA,            \* per flow: downlink copier, NAT reader or DNS handler
    pnB             \* per flow: uplink copier

panicVars == <<pnCrashed, pnKind, pnHandler, pnA, pnB>>

VARIABLES
    \* ---- one node configuration from JSON text to the flows it serves ----
    cgIn,           \* the JSON given to StartVpn: well-formed?, type, uuid, username
    cgPhase,        \* "input" | "rejected" | "running"
    cgRet,          \* the string StartVpn returned
    cgCfg,          \* what ParseConfig returned, NoCfg before and on error
    cgFlows,        \* TCP flows handled so far
    cgSent          \* what the forwarded flows put first on the proxy stream

cfgVars == <<cgIn, cgPhase, cgRet, cgCfg, cgFlows, cgSent>>

VARIABLES
    \* ---- one VLESS outbound from dial to the bytes given to the stack ----
    vlSite,         \* "tcp" | "udp" | "dns": the handler that dialed it
    vlPhase,        \* "dialed" | "sent" | "wrapped" | "failed"
    vlPayload,      \* the bytes the server sends after its response
    vlServer,       \* the bytes the server has still to send
    vlPending,      \* the bytes that arrived and were not read yet
    vlStripped,     \* the wrapper has consumed the response
    vlDropped,      \* how many bytes it consumed and did not return
    vlDelivered     \* the bytes reads of the wrapper have returned

vlessVars == <<vlSite, vlPhase, vlPayload, vlServer, vlPending, vlStripped,
               vlDropped, vlDelivered>>

VARIABLES
    \* ---- one Shadowsocks prologue from its target to the wire ----
    ssHost,         \* targetHost, as net.ParseIP sees it
    ssPort,         \* targetPort
    ssPhase,        \* "input" | "built" | "sent" | "error"
    ssPayload,      \* what BuildShadowsocksPayload returned
    ssWire          \* what was written to the outbound

ssVars == <<ssHost, ssPort, ssPhase, ssPayload, ssWire>>

\* Stack.startPacketHandling: the flows the forwarders delivered, the TCP
\* sessions launched, the flows given to the DNS tunnel and the
\* GetOrCreate calls (key and flow) made on the NAT manager
VARIABLES dpOn, dpSeen, dpTcp, dpDns, dpNat
\* the flow whose handleUDP, called by readLoop through the UDP forwarder,
\* is inside GetOrCreate (none when it is empty), and the flows that have
\* their uplink goroutine
VARIABLES dpInDial, dpUplink
dispVars == <<dpOn, dpSeen, dpTcp, dpDns, dpNat, dpInDial, dpUplink>>

\* Stack.handleTCP up to the relay, per flow: where the handler is, its
\* outbound stream, how the inbound request was completed, and the inbound
\* endpoint
VARIABLES htPc, htRemote, htComplete, htEp
\* the configuration the Stack runs with, how many times r.Complete was
\* called for the flow, and whether the protocol header went out (or the
\* SOCKS5 handshake was completed) on its outbound
VARIABLES htCfg, htCount, htHeader
herrVars == <<htPc, htRemote, htComplete, htEp, htCfg, htCount, htHeader>>

\* Dialer.Dial, per call: the configuration's TLS and transport, where the
\* call is, the TCP connection it opened, whether TLS is established, and
\* what it returned
VARIABLES dlTls, dlWs, dlPc, dlTcp, dlSecure, dlRet
\* echCache[queryDomain] (0 when absent); per call: echConfigList as given
\* to uTLS (0 when empty), what resolveECHConfig returned to the call, and
\* the error it returned
VARIABLES dlEchCache, dlList, dlFetched, dlEchErr
dlVars == <<dlTls, dlWs, dlPc, dlTcp, dlSecure, dlRet, dlEchCache, dlList,
            dlFetched, dlEchErr>>

\* Handler.handleSocks5, per accepted connection: the outbound type of the
\* configuration, where the handler is, the outbound and the local
\* connection, the REP codes written, how dial and handshake went, and
\* whether forward ran
VARIABLES lsType, lsPc, lsRemote, lsLocal, lsReplies, lsOut, lsFwd
lsVars == <<lsType, lsPc, lsRemote, lsLocal, lsReplies, lsOut, lsFwd>>

\* the groups a step of one state machine leaves alone
notLife == <<natVars, tcpVars, socksVars, taskVars, echVars, fragVars,
    dnsVars, panicVars, cfgVars, vlessVars, ssVars, dispVars, herrVars,
    dlVars, lsVars>>
notNat == <<lifeVars, tcpVars, socksVars, taskVars, echVars, fragVars,
    dnsVars, panicVars, cfgVars, vlessVars, ssVars, dispVars, herrVars,
    dlVars, lsVars>>
notTcp == <<lifeVars, natVars, socksVars, taskVars, echVars, fragVars,
    dnsVars, panicVars, cfgVars, vlessVars, ssVars, dispVars, herrVars,
    dlVars, lsVars>>
notSocks == <<lifeVars, natVars, tcpVars, taskVars, echVars, fragVars,
    dnsVars, panicVars, cfgVars, vlessVars, ssVars, dispVars, herrVars,
    dlVars, lsVars>>
notTasks == <<lifeVars, natVars, tcpVars, socksVars, echVars, fragVars,
    dnsVars, panicVars, cfgVars, vlessVars, ssVars, dispVars, herrVars,
    dlVars, lsVars>>
notEch == <<lifeVars, natVars, tcpVars, socksVars, taskVars, fragVars,
    dnsVars, panicVars, cfgVars, vlessVars, ssVars, dispVars, herrVars,
    dlVars, lsVars>>
notFrag == <<lifeVars, natVars, tcpVars, socksVars, taskVars, echVars,
    dnsVars, panicVars, cfgVars, vlessVars, ssVars, dispVars, herrVars,
    dlVars, lsVars>>
notDns == <<lifeVars, natVars, tcpVars, socksVars, taskVars, echVars,
    fragVars, panicVars, cfgVars, vlessVars, ssVars, dispVars, herrVars,
    dlVars, lsVars>>
notPn == <<lifeVars, natVars, tcpVars, socksVars, taskVars, echVars, fragVars,
    dnsVars, cfgVars, vlessVars, ssVars, dispVars, herrVars, dlVars, lsVars>>
notCfg == <<lifeVars, natVars, tcpVars, socksVars, taskVars, echVars,
    fragVars, dnsVars, panicVars, vlessVars, ssVars, dispVars, herrVars,
    dlVars, lsVars>>
notVless == <<lifeVars, natVars, tcpVars, socksVars, taskVars, echVars,
    fragVars, dnsVars, panicVars, cfgVars, ssVars, dispVars, herrVars, dlVars,
    lsVars>>
notSs == <<lifeVars, natVars, tcpVars, socksVars, taskVars, echVars, fragVars,
    dnsVars, panicVars, cfgVars, vlessVars, dispVars, herrVars, dlVars, lsVars>>
notDisp == <<lifeVars, natVars, tcpVars, socksVars, taskVars, echVars,
    fragVars, dnsVars, panicVars, cfgVars, vlessVars, ssVars, herrVars,
    dlVars, lsVars>>
notHerr == <<lifeVars, natVars, tcpVars, socksVars, taskVars, echVars,
    fragVars, dnsVars, panicVars, cfgVars, vlessVars, ssVars, dispVars,
    dlVars, lsVars>>
notDl == <<lifeVars, natVars, tcpVars, socksVars, taskVars, echVars, fragVars,
    dnsVars, panicVars, cfgVars, vlessVars, ssVars, dispVars, herrVars, lsVars>>
notLs == <<lifeVars, natVars, tcpVars, socksVars, taskVars, echVars, fragVars,
    dnsVars, panicVars, cfgVars, vlessVars, ssVars, dispVars, herrVars, dlVars>>

vars == <<lifeVars, notLife>>

\* the locals of an FFI call
\*   op      the FFI operation in progress
\*   ret     its return value ("" is success for the start calls)
\*   fd      the descriptor passed to StartVpn
\*   port    the port passed to Start
\*   hadOld  StartVpn found an instance running and tore it down
\*   lockT   the *Server whose mu this thread is locking or has locked
\*   deferT  the *Server captured by `defer GlobalServer.mu.Unlock()`
\*   srv     the Server proxy.Start built
\*   stack   the Stack tun.StartStack returned
NoLocals == [op |-> "none", ret |-> "none", fd |-> 0, port |-> 0,
             hadOld |-> FALSE, lockT |-> 0, deferT |-> 0, srv |-> 0,
             stack |-> 0]

LifeInit ==
    /\ vpnStack = 0
    /\ mu = 0
    /\ GlobalServer = 0
    /\ stackState = [i \in StackIds |-> "none"]
    /\ teardowns = [i \in StackIds |-> 0]
    /\ devFile = [i \in StackIds |-> "none"]
    /\ fdCloses = [i \in StackIds |-> 0]
    /\ srvRunning = [i \in SrvIds |-> FALSE]
    /\ srvListener = [i \in SrvIds |-> "none"]
    /\ srvPort = [i \in SrvIds |-> 0]
    /\ srvMu = [i \in SrvIds |-> 0]
    /\ serveLoop = [i \in SrvIds |-> "none"]
    /\ nextFd = 1
    /\ nextSrv = 1
    /\ crashed = FALSE
    /\ calls = 0
    /\ pc = [t \in Threads |-> "idle"]
    /\ loc = [t \in Threads |-> NoLocals]

NoRes == [kind |-> "none", sess |-> 0, err |-> ""]
\* `closes` counts the close(ready) calls made on the session; `idle` says
\* LastActive is more than udpTimeout ago; `removedBy` names the code that
\* took the session out of the table: "sweeper", "stale" or nothing yet;
\* `uplink` says a datagram was written to RemoteConn within udpTimeout
NoSession == [LocalConn |-> 0, RemoteConn |-> 0, ready |-> FALSE,
              initErr |-> "", closes |-> 0, idle |-> FALSE,
              removedBy |-> "", uplink |-> FALSE]

\* the states of a session: under construction, usable, construction failed
Initializing(s) == ~s.ready /\ s.RemoteConn = 0 /\ s.initErr = ""
Ready(s) == s.ready /\ s.RemoteConn # 0 /\ s.initErr = ""
Failed(s) == s.ready /\ s.initErr # ""

\* an empty sessions map and the callers in `active` entering GetOrCreate
NatStart(active) ==
    /\ natActive = active
    /\ natEntry = 0
    /\ sess = [c \in Callers |-> NoSession]
    /\ natDials = 0
    /\ connState = [c \in Callers |-> "none"]
    /\ reader = [c \in Callers |-> "none"]
    /\ gpc = [c \in Callers |-> IF c \in active THEN "gc_start" ELSE "gc_off"]
    /\ gexisting = [c \in Callers |-> 0]
    /\ gres = [c \in Callers |-> NoRes]

NatOff == NatStart({})
NatInit == \E active \in (SUBSET Callers) \ {{}} : NatStart(active)

\* a session whose dial, handshake and CreateEndpoint succeeded: both
\* copiers are about to enter io.Copy; the inbound will send m bytes, the
\* outbound n
TcpStart(impl, m, n) ==
    /\ tcpImpl = impl
    /\ tM = m
    /\ tN = n
    /\ inSent = 0
    /\ inShut = FALSE
    /\ upQ = 0
    /\ outGot = 0
    /\ outSent = 0
    /\ outClosed = FALSE
    /\ downQ = <<>>
    /\ delivered = <<>>
    /\ localConn = "open"
    /\ remoteConn = "open"
    /\ upPc = IF impl = "off" THEN "done" ELSE "copy"
    /\ downPc = IF impl = "off" THEN "done" ELSE "copy"

TcpOff == TcpStart("off", 0, 0)
TcpInit ==
    \E impl \in {"closeAll", "waitGroup"}, m \in 0..MaxBytes, n \in 1..MaxBytes :
        TcpStart(impl, m, n)

\* n copies of byte b
Bytes(n, b) == [i \in 1..n |-> b]

\* what a SOCKS5 server sends: the method selection, the sub-negotiation
\* status when it selected user/pass, the CONNECT reply, application data
MethodSelection(ver, method) == <<ver, method>>
AuthStatus(method, status) == IF method = 2 THEN <<1, status>> ELSE <<>>
BndAddr(atyp, dlen) ==
    CASE atyp = 1 -> Bytes(4, 10)
      [] atyp = 3 -> <<dlen>> \o Bytes(dlen, 97)
      [] atyp = 4 -> Bytes(16, 32)
      [] OTHER -> <<>>
ConnectReply(rep, atyp, dlen) ==
    <<5, rep, 0, atyp>> \o BndAddr(atyp, dlen) \o <<31, 144>>
AppData(n) == [i \in 1..n |-> 200 + i]

\* HandshakeSocks5(conn, user, pass, ...) is entered on a conn whose peer
\* sends, in all, the first `cut` bytes of `full`
SocksStart(user, pass, full, replyEnd, cut) ==
    /\ skUser = user
    /\ skPass = pass
    /\ skStream = SubSeq(full, 1, cut)
    /\ skReplyEnd = replyEnd
    /\ skIn = SubSeq(full, 1, cut)
    /\ skOut = <<>>
    /\ skPc = IF replyEnd = 0 THEN "off" ELSE "sk_greet"
    /\ skRet = "none"
    /\ skAtyp = 0
    /\ skLeft = 0

SocksOff == SocksStart(<<>>, <<>>, <<>>, 0, 0)
SocksInit ==
    \E user \in {<<>>, <<117>>}, pass \in {<<>>, <<112>>},
       ver \in {4, 5}, method \in {0, 1, 2, 255}, rep \in {0, 1},
       atyp \in {1, 3, 4, 9}, napp \in 0..MaxApp :
      \E status \in (IF method = 2 THEN {0, 1} ELSE {0}),
         dlen \in (IF atyp = 3 THEN 0..MaxDomain ELSE {0}) :
        LET before == MethodSelection(ver, method)
                      \o AuthStatus(method, status)
                      \o ConnectReply(rep, atyp, dlen)
            full == before \o AppData(napp)
        IN \E cut \in 0..Len(full) :
             SocksStart(user, pass, full, Len(before), cut)

\* no Stack yet (TasksInit), or none at all in this state machine
TasksStart(state) ==
    /\ tkState = state
    /\ tkCancelled = FALSE
    /\ tkSweeper = "none"
    /\ tkTick = 0
    /\ tkDnsMu = 0
    /\ tkDnsConn = "nil"
    /\ fKind = [f \in Flows |-> "none"]
    /\ fA = [f \in Flows |-> "none"]
    /\ fB = [f \in Flows |-> "none"]
    /\ fLocal = [f \in Flows |-> "none"]
    /\ fRemote = [f \in Flows |-> "none"]

TasksOff == TasksStart("absent")
TasksInit == TasksStart("off")

\* an empty echCache; `at` is where every dial stands
EchStart(at) ==
    /\ echCache = {}
    /\ echResolved = [dom \in Domains |-> 0]
    /\ echQueries = [dom \in Domains |-> 0]
    /\ dPc = [d \in Dials |-> at]
    /\ dDomain = [d \in Dials |-> ""]
    /\ dCfg = [d \in Dials |-> FALSE]

EchOff == EchStart("off")
EchInit == EchStart("idle")

\* the connection as Dial hands it to uTLS: wrapped in a FragmentConn with
\* active = true when Settings.Fragment is set, the bare connection otherwise
FragStart(on, made) ==
    /\ fgOn = on
    /\ fgActive = on
    /\ fgCalls = made
    /\ fgMatched = 0
    /\ fgLastB = <<>>
    /\ fgLastParts = <<>>
    /\ fgLastErr = FALSE
    /\ fgStream = <<>>

FragOff == FragStart(FALSE, MaxWrites)
FragInit == \E on \in BOOLEAN : FragStart(on, 0)

\* a Stack with no cached DNS connection; `at` is where every flow stands
DnsStart(at) ==
    /\ dnsMu = 0
    /\ dnsConn = 0
    /\ dnsOpen = {}
    /\ dnsDialed = 0
    /\ dnsOut = [c \in ConnIds |-> <<>>]
    /\ dnsServed = [c \in ConnIds |-> 0]
    /\ dnsIn = [c \in ConnIds |-> <<>>]
    /\ dnsClosed = FALSE
    /\ qPc = [f \in Queries |-> at]
    /\ qTry = [f \in Queries |-> 0]
    /\ qLen = [f \in Queries |-> <<>>]
    /\ qResp = [f \in Queries |-> 0]

DnsOff == DnsStart("off")
DnsInit == DnsStart("recv")

\* a running process with no flow yet; goroutines are "none" until started
PnStart(kind) ==
    /\ pnCrashed = FALSE
    /\ pnKind = [f \in Flows |-> kind]
    /\ pnHandler = [f \in Flows |-> "none"]
    /\ pnA = [f \in Flows |-> "none"]
    /\ pnB = [f \in Flows |-> "none"]

PnOff == PnStart("off")
PnInit == PnStart("none")

\* the values of the JSON "type" member that are explored
CfgTypes ==
    {"mandala", "trojan", "vless", "shadowsocks", "socks", "socks5",
     "Trojan", "wireguard"}

CfgInputs ==
    [json : BOOLEAN, type : CfgTypes, uuid : {"", "u-1"},
     username : {"", "bob"}]

NoCfg == [json |-> FALSE, type |-> "", uuid |-> "", username |-> ""]

CfgStart(in, phase) ==
    /\ cgIn = in
    /\ cgPhase = phase
    /\ cgRet = ""
    /\ cgCfg = NoCfg
    /\ cgFlows = 0
    /\ cgSent = {}

CfgOff == CfgStart(NoCfg, "off")
\* text that is not JSON is one input, whatever it was meant to hold
CfgInit ==
    \E in \in CfgInputs :
        /\ ~in.json => in = [NoCfg EXCEPT !.type = "mandala"]
        /\ CfgStart(in, "input")

\* the byte every addons block is filled with; payload bytes are 0 or 1
AddonByte == 7

\* all sequences over `set` of length at most n
RECURSIVE SeqsUpTo(_, _)
SeqsUpTo(set, n) ==
    IF n = 0 THEN {<<>>}
    ELSE LET shorter == SeqsUpTo(set, n - 1)
         IN  shorter \cup {Append(q, x) : q \in shorter, x \in set}

\* the server's answer: version, addons_len, the addons, then the payload
VlessResponse(addons, payload) ==
    <<0, addons>> \o [i \in 1..addons |-> AddonByte] \o payload

VlessStart(site, phase, addons, payload) ==
    /\ vlSite = site
    /\ vlPhase = phase
    /\ vlPayload = payload
    /\ vlServer = VlessResponse(addons, payload)
    /\ vlPending = <<>>
    /\ vlStripped = FALSE
    /\ vlDropped = 0
    /\ vlDelivered = <<>>

VlessOff == VlessStart("none", "off", 0, <<>>)
VlessInit ==
    \E site \in {"tcp", "udp", "dns"}, addons \in 0..MaxAddons,
       payload \in SeqsUpTo({0, 1}, MaxVlessData) :
        VlessStart(site, "dialed", addons, payload)

\* target hosts: IPv4 literals, an IPv6 literal and domain names
Hosts ==
    {[kind |-> "ip4", bytes |-> <<1, 2, 3, 4>>],
     [kind |-> "ip4", bytes |-> <<10, 0, 0, 1>>],
     [kind |-> "ip6", bytes |-> Bytes(16, 32)]}
    \cup {[kind |-> "domain", bytes |-> Bytes(n, 97)] : n \in 1..MaxDomain}

TargetPorts == {53, 80, 443, 65535}

\* the values crypto/rand is taken to produce
Salts == {Bytes(SaltLen, 0), Bytes(SaltLen, 1), Bytes(SaltLen, 255)}

SsStart(host, port, phase) ==
    /\ ssHost = host
    /\ ssPort = port
    /\ ssPhase = phase
    /\ ssPayload = <<>>
    /\ ssWire = <<>>

SsOff == SsStart([kind |-> "none", bytes |-> <<>>], 0, "off")
SsInit == \E host \in Hosts, port \in TargetPorts : SsStart(host, port, "input")

DispStart(on) ==
    /\ dpOn = on
    /\ dpSeen = {}
    /\ dpTcp = {}
    /\ dpDns = {}
    /\ dpNat = {}
    /\ dpInDial = {}
    /\ dpUplink = {}

DispOff == DispStart(FALSE)
DispInit == DispStart(TRUE)

HerrStart(cfg, at) ==
    /\ htCfg = cfg
    /\ htCount = [f \in HtFlows |-> 0]
    /\ htHeader = [f \in HtFlows |-> FALSE]
    /\ htPc = [f \in HtFlows |-> at]
    /\ htRemote = [f \in HtFlows |-> "none"]
    /\ htComplete = [f \in HtFlows |-> "pending"]
    /\ htEp = [f \in HtFlows |-> "none"]

\* the configurations: a header protocol (mandala, trojan, vless,
\* shadowsocks), socks5, a type the switch does not know, and a header
\* protocol over transport "ws" with no TLS section
HtConfigs == {"header", "socks5", "unknown", "ws_no_tls"}

HerrOff == HerrStart("header", "off")
HerrInit == \E cfg \in HtConfigs : HerrStart(cfg, "dial")

DlNoRet == [conn |-> "none", err |-> ""]

DlStart(tlsCfg, ws, at) ==
    /\ dlTls = tlsCfg
    /\ dlWs = ws
    /\ dlPc = [d \in DlCalls |-> at]
    /\ dlTcp = [d \in DlCalls |-> "none"]
    /\ dlSecure = [d \in DlCalls |-> FALSE]
    /\ dlRet = [d \in DlCalls |-> DlNoRet]
    /\ dlEchCache = 0
    /\ dlList = [d \in DlCalls |-> 0]
    /\ dlFetched = [d \in DlCalls |-> 0]
    /\ dlEchErr = [d \in DlCalls |-> ""]

\* the TLS section: absent, Enabled false, Enabled true, or Enabled true
\* with EnableECH and a DoH URL
DlOff == DlStart("nil", FALSE, "off")
DlInit ==
    \E tlsCfg \in {"nil", "disabled", "enabled", "ech"}, ws \in BOOLEAN :
        DlStart(tlsCfg, ws, "connect")

LsStart(type, at) ==
    /\ lsType = type
    /\ lsPc = [c \in LsConns |-> at]
    /\ lsRemote = [c \in LsConns |-> "none"]
    /\ lsLocal = [c \in LsConns |-> "open"]
    /\ lsReplies = [c \in LsConns |-> <<>>]
    /\ lsOut = [c \in LsConns |-> "none"]
    /\ lsFwd = [c \in LsConns |-> FALSE]

LsOff == LsStart("", "off")
LsInit ==
    \E type \in {"mandala", "trojan", "vless", "shadowsocks", "socks5"} :
        LsStart(type, "request")

Goto(t, label) == pc' = [pc EXCEPT ![t] = label]
SetLoc(t, r) == loc' = [loc EXCEPT ![t] = r]
\* thread t is at `label` inside a call; no step but a call spends `calls`
At(t, label) ==
    ~crashed /\ pc[t] = label /\ UNCHANGED calls /\ UNCHANGED notLife

\* an FFI call begins: thread t is free and the host has calls left
Call(t, locals, label) ==
    /\ ~crashed
    /\ pc[t] = "idle"
    /\ calls < MaxCalls
    /\ calls' = calls + 1
    /\ UNCHANGED notLife
    /\ SetLoc(t, locals)
    /\ Goto(t, label)

\* an FFI call returns r to the host; its other locals die with the frame
Return(t, r) ==
    /\ SetLoc(t, [NoLocals EXCEPT !.op = loc[t].op, !.ret = r])
    /\ Goto(t, "idle")

\* a nil dereference or a fatal runtime error outside any recover()
Panic(t) ==
    /\ crashed' = TRUE
    /\ Goto(t, "panicked")


(***************************************************************************)
(* tun.Device, tun.StartStack, Stack.Close                                 *)
(***************************************************************************)

\* Device.Close: d.file.Close() when d.file is set. os.File.Close releases
\* the descriptor on the first call and only returns an error afterwards.
DeviceClose(fd) ==
    IF devFile[fd] = "open"
    THEN /\ devFile' = [devFile EXCEPT ![fd] = "closed"]
         /\ fdCloses' = [fdCloses EXCEPT ![fd] = @ + 1]
    ELSE UNCHANGED <<devFile, fdCloses>>

\* Stack.Close: under closeOnce, cancel the context, close the cached DNS
\* connection, sleep, close the device, close the gVisor stack.
StackClose(id) ==
    IF teardowns[id] = 0
    THEN /\ teardowns' = [teardowns EXCEPT ![id] = @ + 1]
         /\ DeviceClose(id)
         /\ stackState' = [stackState EXCEPT ![id] = "closed"]
    ELSE UNCHANGED <<teardowns, devFile, fdCloses, stackState>>

\* a CreateNIC failure path that returns without dev.Close()
StartStackNicErrorLeak(fd) ==
    /\ devFile' = [devFile EXCEPT ![fd] = "open"]
    /\ UNCHANGED <<fdCloses, stackState, teardowns>>

\* StartStack when s.CreateNIC fails: the device was opened by NewDevice and
\* is closed again; no Stack is returned.
StartStackNicError(fd) ==
    /\ devFile' = [devFile EXCEPT ![fd] = "closed"]
    /\ fdCloses' = [fdCloses EXCEPT ![fd] = @ + 1]
    /\ UNCHANGED <<stackState, teardowns>>

\* StartStack when NewDevice fails (SetNonblock): nothing was created.
StartStackDeviceError(fd) ==
    UNCHANGED <<devFile, fdCloses, stackState, teardowns>>

\* StartStack on success: device open, NAT manager and forwarders installed.
StartStackOk(fd) ==
    /\ devFile' = [devFile EXCEPT ![fd] = "open"]
    /\ stackState' = [stackState EXCEPT ![fd] = "running"]
    /\ UNCHANGED <<fdCloses, teardowns>>

(***************************************************************************)
(* mobile.StartVpn(fd, mtu, jsonConfig)                                    *)
(***************************************************************************)
srvVars == <<GlobalServer, srvRunning, srvListener, srvPort, srvMu,
             serveLoop, nextSrv>>
stkVars == <<stackState, teardowns, devFile, fdCloses>>

CallStartVpn(t) ==
    /\ nextFd <= MaxVpnStarts
    /\ nextFd' = nextFd + 1
    /\ Call(t, [NoLocals EXCEPT !.op = "StartVpn", !.fd = nextFd], "sv_lock")
    /\ UNCHANGED <<vpnStack, mu, srvVars, stkVars, crashed>>

\* mu.Lock(); defer mu.Unlock()
SvLock(t) ==
    /\ At(t, "sv_lock")
    /\ mu = 0
    /\ mu' = t
    /\ Goto(t, "sv_stopold")
    /\ UNCHANGED <<vpnStack, srvVars, stkVars, nextFd, crashed, loc>>

\* a StartVpn that forgets the old instance without closing it
SvStopOldKeep(t) ==
    /\ At(t, "sv_stopold")
    /\ IF vpnStack # 0
       THEN /\ vpnStack' = 0
            /\ SetLoc(t, [loc[t] EXCEPT !.hadOld = TRUE])
       ELSE UNCHANGED <<vpnStack, loc>>
    /\ Goto(t, "sv_parse")
    /\ UNCHANGED <<mu, srvVars, stkVars, nextFd, crashed>>

\* a StartVpn that refuses to start while an instance runs
SvStopOldRefuse(t) ==
    /\ At(t, "sv_stopold")
    /\ IF vpnStack # 0
       THEN /\ SetLoc(t, [loc[t] EXCEPT !.hadOld = TRUE,
                                         !.ret = "VPN already running"])
            /\ Goto(t, "sv_ret")
       ELSE Goto(t, "sv_parse") /\ UNCHANGED loc
    /\ UNCHANGED <<vpnStack, mu, srvVars, stkVars, nextFd, crashed>>

\* if vpnStack != nil { vpnStack.Close(); vpnStack = nil }
SvStopOld(t) ==
    /\ At(t, "sv_stopold")
    /\ IF vpnStack # 0
       THEN /\ StackClose(vpnStack)
            /\ vpnStack' = 0
            /\ SetLoc(t, [loc[t] EXCEPT !.hadOld = TRUE])
       ELSE UNCHANGED <<stkVars, vpnStack, loc>>
    /\ Goto(t, "sv_parse")
    /\ UNCHANGED <<mu, srvVars, nextFd, crashed>>

\* cfg, err := config.ParseConfig(jsonConfig); the JSON may or may not parse
SvParse(t) ==
    /\ At(t, "sv_parse")
    /\ \E ok \in BOOLEAN :
         IF ok
         THEN Goto(t, "sv_startstack") /\ UNCHANGED loc
         ELSE /\ SetLoc(t, [loc[t] EXCEPT !.ret = "Config Error"])
              /\ Goto(t, "sv_ret")
    /\ UNCHANGED <<vpnStack, mu, srvVars, stkVars, nextFd, crashed>>

\* stack, err := tun.StartStack(int(fd), int(mtu), cfg)
SvStartStack(t) ==
    /\ At(t, "sv_startstack")
    /\ \/ /\ StartStackDeviceError(loc[t].fd)
          /\ SetLoc(t, [loc[t] EXCEPT !.ret = "Stack Error"])
          /\ Goto(t, "sv_ret")
       \/ /\ StartStackNicError(loc[t].fd)
          /\ SetLoc(t, [loc[t] EXCEPT !.ret = "Stack Error"])
          /\ Goto(t, "sv_ret")
       \/ /\ StartStackOk(loc[t].fd)
          /\ SetLoc(t, [loc[t] EXCEPT !.stack = loc[t].fd])
          /\ Goto(t, "sv_assign")
    /\ UNCHANGED <<vpnStack, mu, srvVars, nextFd, crashed>>

\* vpnStack = stack; return ""
SvAssign(t) ==
    /\ At(t, "sv_assign")
    /\ vpnStack' = loc[t].stack
    /\ SetLoc(t, [loc[t] EXCEPT !.ret = ""])
    /\ Goto(t, "sv_ret")
    /\ UNCHANGED <<mu, srvVars, stkVars, nextFd, crashed>>

\* the return: the deferred mu.Unlock() runs
SvRet(t) ==
    /\ At(t, "sv_ret")
    /\ mu' = 0
    /\ Return(t, loc[t].ret)
    /\ UNCHANGED <<vpnStack, srvVars, stkVars, nextFd, crashed>>


(***************************************************************************)
(* proxy.Stop(): every statement reads the package variable GlobalServer   *)
(* again; nothing but the Server's own mu orders the callers.  The steps   *)
(* are shared by mobile.Stop (continues at "st_lock") and proxy.Start      *)
(* (continues at "lp_parse").                                              *)
(***************************************************************************)
vpnVars == <<vpnStack, mu, stkVars, nextFd>>

AfterProxyStop(t) == IF loc[t].op = "Start" THEN "lp_parse" ELSE "st_lock"

CallStop(t) ==
    /\ Call(t, [NoLocals EXCEPT !.op = "Stop"], "ps_check")
    /\ UNCHANGED <<vpnVars, srvVars, crashed>>

\* if GlobalServer != nil {
PsCheck(t) ==
    /\ At(t, "ps_check")
    /\ IF GlobalServer = 0
       THEN Goto(t, AfterProxyStop(t))
       ELSE Goto(t, "ps_load")
    /\ UNCHANGED <<vpnVars, srvVars, crashed, loc>>

\* GlobalServer.mu.Lock(): the receiver &GlobalServer.mu is evaluated
PsLoad(t) ==
    /\ At(t, "ps_load")
    /\ IF GlobalServer = 0
       THEN Panic(t) /\ UNCHANGED loc
       ELSE /\ SetLoc(t, [loc[t] EXCEPT !.lockT = GlobalServer])
            /\ Goto(t, "ps_acquire")
            /\ UNCHANGED crashed
    /\ UNCHANGED <<vpnVars, srvVars>>

\* ... and Lock blocks until that Server's mu is free
PsAcquire(t) ==
    /\ At(t, "ps_acquire")
    /\ srvMu[loc[t].lockT] = 0
    /\ srvMu' = [srvMu EXCEPT ![loc[t].lockT] = t]
    /\ Goto(t, "ps_defer")
    /\ UNCHANGED <<vpnVars, GlobalServer, srvRunning, srvListener, srvPort,
                   serveLoop, nextSrv, crashed, loc>>

\* defer GlobalServer.mu.Unlock(): the receiver is evaluated now
PsDefer(t) ==
    /\ At(t, "ps_defer")
    /\ IF GlobalServer = 0
       THEN Panic(t) /\ UNCHANGED loc
       ELSE /\ SetLoc(t, [loc[t] EXCEPT !.deferT = GlobalServer])
            /\ Goto(t, "ps_running")
            /\ UNCHANGED crashed
    /\ UNCHANGED <<vpnVars, srvVars>>

\* if GlobalServer.running {
PsRunning(t) ==
    /\ At(t, "ps_running")
    /\ IF GlobalServer = 0
       THEN Panic(t)
       ELSE /\ Goto(t, IF srvRunning[GlobalServer] THEN "ps_setfalse" ELSE "ps_nil")
            /\ UNCHANGED crashed
    /\ UNCHANGED <<vpnVars, srvVars, loc>>

\* GlobalServer.running = false
PsSetFalse(t) ==
    /\ At(t, "ps_setfalse")
    /\ IF GlobalServer = 0
       THEN Panic(t) /\ UNCHANGED srvRunning
       ELSE /\ srvRunning' = [srvRunning EXCEPT ![GlobalServer] = FALSE]
            /\ Goto(t, "ps_close")
            /\ UNCHANGED crashed
    /\ UNCHANGED <<vpnVars, GlobalServer, srvListener, srvPort, srvMu,
                   serveLoop, nextSrv, loc>>

\* if GlobalServer.listener != nil { GlobalServer.listener.Close() }
PsClose(t) ==
    /\ At(t, "ps_close")
    /\ IF GlobalServer = 0
       THEN Panic(t) /\ UNCHANGED srvListener
       ELSE /\ srvListener' = [srvListener EXCEPT ![GlobalServer] = "closed"]
            /\ Goto(t, "ps_nil")
            /\ UNCHANGED crashed
    /\ UNCHANGED <<vpnVars, GlobalServer, srvRunning, srvPort, srvMu,
                   serveLoop, nextSrv, loc>>

\* GlobalServer = nil
PsNil(t) ==
    /\ At(t, "ps_nil")
    /\ GlobalServer' = 0
    /\ Goto(t, "ps_unlock")
    /\ UNCHANGED <<vpnVars, srvRunning, srvListener, srvPort, srvMu,
                   serveLoop, nextSrv, crashed, loc>>

\* the deferred Unlock of the mutex captured at the defer statement;
\* unlocking a sync.Mutex that is not locked is a fatal runtime error
PsUnlock(t) ==
    /\ At(t, "ps_unlock")
    /\ IF srvMu[loc[t].deferT] = 0
       THEN Panic(t) /\ UNCHANGED srvMu
       ELSE /\ srvMu' = [srvMu EXCEPT ![loc[t].deferT] = 0]
            /\ Goto(t, AfterProxyStop(t))
            /\ UNCHANGED crashed
    /\ UNCHANGED <<vpnVars, GlobalServer, srvRunning, srvListener, srvPort,
                   serveLoop, nextSrv, loc>>

(***************************************************************************)
(* mobile.Stop(), after proxy.Stop()                                       *)
(***************************************************************************)
\* mu.Lock()
StLock(t) ==
    /\ At(t, "st_lock")
    /\ mu = 0
    /\ mu' = t
    /\ Goto(t, "st_close")
    /\ UNCHANGED <<vpnStack, stkVars, nextFd, srvVars, crashed, loc>>

\* if vpnStack != nil { vpnStack.Close(); vpnStack = nil }
StClose(t) ==
    /\ At(t, "st_close")
    /\ IF vpnStack # 0
       THEN StackClose(vpnStack) /\ vpnStack' = 0
       ELSE UNCHANGED <<stkVars, vpnStack>>
    /\ Goto(t, "st_unlock")
    /\ UNCHANGED <<mu, nextFd, srvVars, crashed, loc>>

\* mu.Unlock(); Stop returns
StUnlock(t) ==
    /\ At(t, "st_unlock")
    /\ mu' = 0
    /\ Return(t, "void")
    /\ UNCHANGED <<vpnStack, stkVars, nextFd, srvVars, crashed>>


(***************************************************************************)
(* mobile.Start(localPort, jsonConfig) = proxy.Start                       *)
(***************************************************************************)
\* Start begins with Stop() (the "ps_" steps above); the Server object it
\* will build is named at the call
CallStart(t) ==
    /\ nextSrv <= MaxLocalStarts
    /\ \E p \in Ports :
         Call(t, [NoLocals EXCEPT !.op = "Start", !.port = p, !.srv = nextSrv],
              "ps_check")
    /\ nextSrv' = nextSrv + 1
    /\ UNCHANGED <<vpnVars, GlobalServer, srvRunning, srvListener, srvPort,
                   srvMu, serveLoop, crashed>>

\* cfg, err := config.ParseConfig(jsonConfig)
LpParse(t) ==
    /\ At(t, "lp_parse")
    /\ \E ok \in BOOLEAN :
         IF ok
         THEN Goto(t, "lp_listen") /\ UNCHANGED loc
         ELSE Return(t, "Error")
    /\ UNCHANGED <<vpnVars, srvVars, crashed>>

PortInUse(p) == \E i \in SrvIds : srvListener[i] = "open" /\ srvPort[i] = p

\* l, err := net.Listen("tcp", "127.0.0.1:port"); srv := &Server{...}
LpListen(t) ==
    /\ At(t, "lp_listen")
    /\ \/ /\ ~PortInUse(loc[t].port)
          /\ srvListener' = [srvListener EXCEPT ![loc[t].srv] = "open"]
          /\ srvPort' = [srvPort EXCEPT ![loc[t].srv] = loc[t].port]
          /\ srvRunning' = [srvRunning EXCEPT ![loc[t].srv] = TRUE]
          /\ Goto(t, "lp_publish")
          /\ UNCHANGED loc
       \/ /\ PortInUse(loc[t].port)
          /\ Return(t, "Error")
          /\ UNCHANGED <<srvListener, srvPort, srvRunning>>
    /\ UNCHANGED <<vpnVars, GlobalServer, srvMu, serveLoop, nextSrv, crashed>>

\* GlobalServer = srv
LpPublish(t) ==
    /\ At(t, "lp_publish")
    /\ GlobalServer' = loc[t].srv
    /\ Goto(t, "lp_go")
    /\ UNCHANGED <<vpnVars, srvRunning, srvListener, srvPort, srvMu,
                   serveLoop, nextSrv, crashed, loc>>

\* go srv.serve(); return nil
LpGo(t) ==
    /\ At(t, "lp_go")
    /\ serveLoop' = [serveLoop EXCEPT ![loc[t].srv] = "alive"]
    /\ Return(t, "")
    /\ UNCHANGED <<vpnVars, GlobalServer, srvRunning, srvListener, srvPort,
                   srvMu, nextSrv, crashed>>

(***************************************************************************)
(* Server.serve: for s.running { conn, err := s.listener.Accept();         *)
(*                               if err != nil { return } ... }            *)
(***************************************************************************)
\* the loop ends when running is false, when the listener was closed, or
\* when Accept fails for any other reason (descriptor exhaustion, an
\* aborted connection): the code returns on every error
ServeExit(i) ==
    /\ ~crashed
    /\ serveLoop[i] = "alive"
    /\ \/ ~srvRunning[i]
       \/ srvListener[i] = "closed"
       \/ srvListener[i] = "open"
    /\ serveLoop' = [serveLoop EXCEPT ![i] = "exited"]
    /\ UNCHANGED <<vpnVars, GlobalServer, srvRunning, srvListener, srvPort,
                   srvMu, nextSrv, crashed, calls, pc, loc, notLife>>

(***************************************************************************)
(* mobile.IsRunning() = proxy.IsRunning() || vpnStack != nil               *)
(***************************************************************************)
CallIsRunning(t) ==
    /\ Call(t, [NoLocals EXCEPT !.op = "IsRunning"], "ir_check")
    /\ UNCHANGED <<vpnVars, srvVars, crashed>>

\* if GlobalServer == nil { return false }
IrCheck(t) ==
    /\ At(t, "ir_check")
    /\ Goto(t, IF GlobalServer = 0 THEN "ir_lock" ELSE "ir_load")
    /\ UNCHANGED <<vpnVars, srvVars, crashed, loc>>

\* GlobalServer.mu.Lock()
IrLoad(t) ==
    /\ At(t, "ir_load")
    /\ IF GlobalServer = 0
       THEN Panic(t) /\ UNCHANGED loc
       ELSE /\ SetLoc(t, [loc[t] EXCEPT !.lockT = GlobalServer])
            /\ Goto(t, "ir_acquire")
            /\ UNCHANGED crashed
    /\ UNCHANGED <<vpnVars, srvVars>>

IrAcquire(t) ==
    /\ At(t, "ir_acquire")
    /\ srvMu[loc[t].lockT] = 0
    /\ srvMu' = [srvMu EXCEPT ![loc[t].lockT] = t]
    /\ Goto(t, "ir_defer")
    /\ UNCHANGED <<vpnVars, GlobalServer, srvRunning, srvListener, srvPort,
                   serveLoop, nextSrv, crashed, loc>>

\* defer GlobalServer.mu.Unlock()
IrDefer(t) ==
    /\ At(t, "ir_defer")
    /\ IF GlobalServer = 0
       THEN Panic(t) /\ UNCHANGED loc
       ELSE /\ SetLoc(t, [loc[t] EXCEPT !.deferT = GlobalServer])
            /\ Goto(t, "ir_read")
            /\ UNCHANGED crashed
    /\ UNCHANGED <<vpnVars, srvVars>>

\* return GlobalServer.running
IrRead(t) ==
    /\ At(t, "ir_read")
    /\ IF GlobalServer = 0
       THEN Panic(t) /\ UNCHANGED loc
       ELSE /\ SetLoc(t, [loc[t] EXCEPT
                    !.ret = IF srvRunning[GlobalServer] THEN "true" ELSE "false"])
            /\ Goto(t, "ir_unlock")
            /\ UNCHANGED crashed
    /\ UNCHANGED <<vpnVars, srvVars>>

\* the deferred Unlock; then `if proxy.IsRunning() { return true }`
IrUnlock(t) ==
    /\ At(t, "ir_unlock")
    /\ IF srvMu[loc[t].deferT] = 0
       THEN Panic(t) /\ UNCHANGED <<srvMu, loc>>
       ELSE /\ srvMu' = [srvMu EXCEPT ![loc[t].deferT] = 0]
            /\ IF loc[t].ret = "true"
               THEN Return(t, "true")
               ELSE Goto(t, "ir_lock") /\ UNCHANGED loc
            /\ UNCHANGED crashed
    /\ UNCHANGED <<vpnVars, GlobalServer, srvRunning, srvListener, srvPort,
                   serveLoop, nextSrv>>

\* mu.Lock(); defer mu.Unlock()
IrLock(t) ==
    /\ At(t, "ir_lock")
    /\ mu = 0
    /\ mu' = t
    /\ Goto(t, "ir_vpn")
    /\ UNCHANGED <<vpnStack, stkVars, nextFd, srvVars, crashed, loc>>

\* return vpnStack != nil
IrVpn(t) ==
    /\ At(t, "ir_vpn")
    /\ Return(t, IF vpnStack # 0 THEN "true" ELSE "false")
    /\ mu' = 0
    /\ UNCHANGED <<vpnStack, stkVars, nextFd, srvVars, crashed>>

(***************************************************************************)
(* The lifecycle specification                                             *)
(***************************************************************************)
LifeNext ==
    \/ \E t \in Threads :
         \/ CallStartVpn(t) \/ SvLock(t) \/ SvStopOld(t) \/ SvParse(t)
         \/ SvStartStack(t) \/ SvAssign(t) \/ SvRet(t)
         \/ CallStop(t) \/ PsCheck(t) \/ PsLoad(t) \/ PsAcquire(t)
         \/ PsDefer(t) \/ PsRunning(t) \/ PsSetFalse(t) \/ PsClose(t)
         \/ PsNil(t) \/ PsUnlock(t) \/ StLock(t) \/ StClose(t) \/ StUnlock(t)
         \/ CallStart(t) \/ LpParse(t) \/ LpListen(t) \/ LpPublish(t)
         \/ LpGo(t)
         \/ CallIsRunning(t) \/ IrCheck(t) \/ IrLoad(t) \/ IrAcquire(t)
         \/ IrDefer(t) \/ IrRead(t) \/ IrUnlock(t) \/ IrLock(t) \/ IrVpn(t)
    \/ \E i \in SrvIds : ServeExit(i)

InitLife == LifeInit /\ NatOff /\ TcpOff /\ SocksOff /\ TasksOff /\ EchOff /\
    FragOff /\ DnsOff /\ PnOff /\ CfgOff /\ VlessOff /\ SsOff /\ DispOff /\
    HerrOff /\ DlOff /\ LsOff

SpecLife ==
    /\ InitLife
    /\ [][LifeNext]_vars


(***************************************************************************)
(* Lifecycle properties                                                    *)
(***************************************************************************)
LiveStacks == {i \in StackIds : stackState[i] = "running"}
OpenListeners == {i \in SrvIds : srvListener[i] = "open"}
AllIdle == \A t \in Threads : pc[t] = "idle"

\* what proxy.IsRunning and mobile.IsRunning read
ProxyIsRunning == GlobalServer # 0 /\ srvRunning[GlobalServer]
VpnIsRunning == vpnStack # 0

\* a TUN stack is up, or a local server is listening with its accept loop
InstanceExists ==
    \/ LiveStacks # {}
    \/ \E i \in SrvIds : srvListener[i] = "open" /\ serveLoop[i] = "alive"

C5_StartVpnErrorLeavesNone ==
    \A t \in Threads :
        (pc[t] = "sv_ret" /\ loc[t].ret # "") =>
            (LiveStacks = {} /\ vpnStack = 0)

\* C5 happens: a failing StartVpn had found an instance running
C5_Witness ==
    \E t \in Threads :
        pc[t] = "sv_ret" /\ loc[t].ret = "Stack Error" /\ loc[t].hadOld

\* C6: stop() is idempotent: the teardown body of a stack runs at most once,
\* no stop() call ends in a panic, and once every thread's last call is a
\* completed stop() nothing is running.
C6_StopIdempotent ==
    /\ \A i \in StackIds : teardowns[i] <= 1
    /\ \A t \in Threads : loc[t].op = "Stop" => pc[t] # "panicked"
    /\ (\A t \in Threads : pc[t] = "idle" /\ loc[t].op = "Stop") =>
          (LiveStacks = {} /\ OpenListeners = {} /\ vpnStack = 0
           /\ GlobalServer = 0)

\* C7: never two live stacks and never two open local listeners.
C7_AtMostOneInstance ==
    /\ Cardinality(LiveStacks) <= 1
    /\ Cardinality(OpenListeners) <= 1

\* C8: with no call in progress, is_running() (proxy.IsRunning() or
\* vpnStack != nil) is true exactly when a TUN stack is live or a local
\* server is listening with a live accept loop.
C8_IsRunningIffInstance ==
    (AllIdle /\ ~crashed) =>
        ((ProxyIsRunning \/ VpnIsRunning) <=> InstanceExists)

\* C10: a TUN descriptor is never closed twice; it has been closed exactly
\* once when its stack has been closed and when StartStack failed after the
\* device was created.
C10_FdClosedOnce ==
    /\ \A fd \in StackIds : fdCloses[fd] <= 1
    /\ \A i \in StackIds : stackState[i] = "closed" => fdCloses[i] = 1
    /\ \A t \in Threads :
         (pc[t] = "sv_ret" /\ loc[t].ret = "Stack Error"
            /\ devFile[loc[t].fd] # "none") => fdCloses[loc[t].fd] = 1

\* C10 happens: a stack was closed and two stop() calls have returned, and a
\* device-created start has failed
C10_Witness ==
    /\ \E i \in StackIds : stackState[i] = "closed" /\ fdCloses[i] = 1
    /\ \E j \in StackIds : stackState[j] = "none" /\ devFile[j] = "closed"
    /\ \E t \in Threads : pc[t] = "idle" /\ loc[t].op = "Stop"


(***************************************************************************)
(* UDPNatManager: GetOrCreate, copyRemoteToLocal, cleanupLoop              *)
(* Stack.handleUDP builds a fresh gonet.UDPConn for every request and      *)
(* passes it to GetOrCreate, so caller c passes localConn c.               *)
(***************************************************************************)
GGoto(c, label) == gpc' = [gpc EXCEPT ![c] = label]
GAt(c, label) ==
    gpc[c] = label /\ UNCHANGED <<notNat, natActive>>
GReturn(c, r) == gres' = [gres EXCEPT ![c] = r] /\ GGoto(c, "gc_done")
GErr(e) == [kind |-> "error", sess |-> 0, err |-> e]
GOk(s) == [kind |-> "session", sess |-> s, err |-> ""]

\* newSession := &UDPSession{LocalConn: localConn, ready: make(chan)}
\* actual, loaded := m.sessions.LoadOrStore(key, newSession)
GcLoadOrStore(c) ==
    /\ GAt(c, "gc_start")
    /\ sess' = [sess EXCEPT ![c] = [NoSession EXCEPT !.LocalConn = c]]
    /\ IF natEntry = 0
       THEN /\ natEntry' = c
            /\ GGoto(c, "gc_dial")
            /\ UNCHANGED gexisting
       ELSE /\ gexisting' = [gexisting EXCEPT ![c] = natEntry]
            /\ GGoto(c, "gc_wait")
            /\ UNCHANGED natEntry
    /\ UNCHANGED <<natDials, connState, reader, gres>>

\* a wait that falls through although ready is still open
GcWaitReadyNoWait(c) ==
    /\ GAt(c, "gc_wait")
    /\ GGoto(c, "gc_check")
    /\ UNCHANGED <<natEntry, sess, natDials, connState, reader, gexisting,
                   gres>>

\* case <-existing.ready:
GcWaitReady(c) ==
    /\ GAt(c, "gc_wait")
    /\ sess[gexisting[c]].ready
    /\ GGoto(c, "gc_check")
    /\ UNCHANGED <<natEntry, sess, natDials, connState, reader, gexisting,
                   gres>>

\* case <-time.After(5 * time.Second): the leader is still initialising
GcWaitTimeout(c) ==
    /\ GAt(c, "gc_wait")
    /\ ~sess[gexisting[c]].ready
    /\ GReturn(c, GErr("wait for udp session init timeout"))
    /\ UNCHANGED <<natEntry, sess, natDials, connState, reader, gexisting>>

\* the follower's checks after ready: initErr, then the stale test
GcCheck(c) ==
    /\ GAt(c, "gc_check")
    /\ LET e == gexisting[c] IN
       IF sess[e].initErr # ""
       THEN /\ GReturn(c, GErr(sess[e].initErr))
            /\ UNCHANGED <<natEntry, connState, sess>>
       ELSE IF sess[e].LocalConn # c
       THEN /\ connState' = IF sess[e].RemoteConn # 0
                            THEN [connState EXCEPT ![sess[e].RemoteConn] = "closed"]
                            ELSE connState
            /\ natEntry' = 0
            /\ sess' = IF natEntry = e
                       THEN [sess EXCEPT ![e].removedBy = "stale"]
                       ELSE sess
            /\ GReturn(c, GErr("session stale"))
       ELSE /\ sess' = [sess EXCEPT ![e].idle = FALSE]
            /\ GReturn(c, GOk(e))
            /\ UNCHANGED <<natEntry, connState>>
    /\ UNCHANGED <<natDials, reader, gexisting>>

\* fail(err), first half: newSession.initErr = err; close(newSession.ready)
GFail(c, err) ==
    /\ sess' = [sess EXCEPT ![c] = [@ EXCEPT !.initErr = err, !.ready = TRUE,
                                              !.closes = @ + 1]]
    /\ GGoto(c, "gc_faildel")

\* remoteConn, err := m.dialer.Dial()
GcDial(c) ==
    /\ GAt(c, "gc_dial")
    /\ natDials' = natDials + 1
    /\ \/ /\ GFail(c, "dial error")
          /\ UNCHANGED connState
       \/ /\ connState' = [connState EXCEPT ![c] = "open"]
          /\ GGoto(c, "gc_handshake")
          /\ UNCHANGED sess
    /\ UNCHANGED <<natEntry, reader, gexisting, gres>>

\* the handshake payload is built and written (or HandshakeSocks5 runs); on
\* an error remoteConn.Close() and fail(err)
GcHandshake(c) ==
    /\ GAt(c, "gc_handshake")
    /\ \/ /\ connState' = [connState EXCEPT ![c] = "closed"]
          /\ GFail(c, "handshake error")
       \/ /\ GGoto(c, "gc_publish")
          /\ UNCHANGED <<connState, sess>>
    /\ UNCHANGED <<natEntry, natDials, reader, gexisting, gres>>

\* fail(err) that returns and leaves the placeholder in the table
GcFailKeep(c) ==
    /\ GAt(c, "gc_faildel")
    /\ GReturn(c, GErr(sess[c].initErr))
    /\ UNCHANGED <<natEntry, sess, natDials, connState, reader, gexisting>>

\* fail(err), second half: m.sessions.Delete(key); return nil, err
GcFailDelete(c) ==
    /\ GAt(c, "gc_faildel")
    /\ natEntry' = 0
    /\ GReturn(c, GErr(sess[c].initErr))
    /\ UNCHANGED <<sess, natDials, connState, reader, gexisting>>

\* close(newSession.ready) with newSession.RemoteConn left unset
\* go m.copyRemoteToLocal(key, newSession); return newSession, nil
GcPublishNoConn(c) ==
    /\ GAt(c, "gc_publish")
    /\ sess' = [sess EXCEPT ![c] = [@ EXCEPT !.ready = TRUE,
                                              !.closes = @ + 1]]
    /\ reader' = [reader EXCEPT ![c] = "alive"]
    /\ GReturn(c, GOk(c))
    /\ UNCHANGED <<natEntry, natDials, connState, gexisting>>

\* newSession.RemoteConn = remoteConn; close(newSession.ready)
\* go m.copyRemoteToLocal(key, newSession); return newSession, nil
GcPublish(c) ==
    /\ GAt(c, "gc_publish")
    /\ sess' = [sess EXCEPT ![c] = [@ EXCEPT !.RemoteConn = c, !.ready = TRUE,
                                              !.closes = @ + 1]]
    /\ reader' = [reader EXCEPT ![c] = "alive"]
    /\ GReturn(c, GOk(c))
    /\ UNCHANGED <<natEntry, natDials, connState, gexisting>>

\* copyRemoteToLocal returns on a read error (the 60 s deadline, the outbound
\* closed by either side) or a write error; its defer closes RemoteConn and
\* deletes the key
CopyRemoteToLocalExit(c) ==
    /\ reader[c] = "alive"
    /\ reader' = [reader EXCEPT ![c] = "exited"]
    /\ connState' = [connState EXCEPT ![c] = "closed"]
    /\ natEntry' = 0
    /\ UNCHANGED <<notNat, natActive, sess, natDials, gpc, gexisting, gres>>

\* LastActive of a ready session comes to lie more than udpTimeout back
SessionIdle(c) ==
    /\ Ready(sess[c]) /\ ~sess[c].idle
    /\ sess' = [sess EXCEPT ![c].idle = TRUE]
    /\ UNCHANGED <<notNat, natActive, natEntry, natDials, connState, reader,
                   gpc, gexisting, gres>>

\* copyRemoteToLocal reads a datagram: s.LastActive = time.Now(), and the
\* datagram is written to LocalConn
CopyRemoteToLocalData(c) ==
    /\ reader[c] = "alive" /\ connState[c] = "open"
    /\ sess[c].idle
    /\ sess' = [sess EXCEPT ![c].idle = FALSE]
    /\ UNCHANGED <<notNat, natActive, natEntry, natDials, connState, reader,
                   gpc, gexisting, gres>>

\* the goroutine of handleUDP that was given the session reads a datagram
\* from localConn and writes it to session.RemoteConn; LastActive is not
\* touched
UplinkWrite(c) ==
    /\ gpc[c] = "gc_done" /\ gres[c].kind = "session"
    /\ connState[gres[c].sess] = "open"
    /\ ~sess[gres[c].sess].uplink
    /\ sess' = [sess EXCEPT ![gres[c].sess].uplink = TRUE]
    /\ UNCHANGED <<notNat, natActive, natEntry, natDials, connState, reader,
                   gpc, gexisting, gres>>

\* the last uplink datagram comes to lie more than udpTimeout back
UplinkAges(c) ==
    /\ sess[c].uplink
    /\ sess' = [sess EXCEPT ![c].uplink = FALSE]
    /\ UNCHANGED <<notNat, natActive, natEntry, natDials, connState, reader,
                   gpc, gexisting, gres>>

\* a tick of cleanupLoop that removes a ready session whatever LastActive is
CleanupSweepEager ==
    /\ natEntry # 0
    /\ sess[natEntry].ready
    /\ IF sess[natEntry].RemoteConn = 0
       THEN UNCHANGED connState
       ELSE connState' = [connState EXCEPT ![sess[natEntry].RemoteConn] = "closed"]
    /\ sess' = [sess EXCEPT ![natEntry].removedBy = "sweeper"]
    /\ natEntry' = 0
    /\ UNCHANGED <<notNat, natActive, natDials, reader, gpc, gexisting, gres>>

\* a tick of cleanupLoop that deletes an idle session and leaves its
\* outbound open
CleanupSweepNoClose ==
    /\ natEntry # 0
    /\ sess[natEntry].ready
    /\ sess[natEntry].RemoteConn # 0 => sess[natEntry].idle
    /\ sess' = [sess EXCEPT ![natEntry].removedBy = "sweeper"]
    /\ natEntry' = 0
    /\ UNCHANGED <<notNat, natActive, natDials, connState, reader, gpc,
                   gexisting, gres>>

\* one tick of cleanupLoop finds the key: a session still initialising is
\* skipped, a session whose ready is closed and that has no outbound is
\* deleted, a session idle for more than udpTimeout is closed and deleted
CleanupSweep ==
    /\ natEntry # 0
    /\ sess[natEntry].ready
    /\ IF sess[natEntry].RemoteConn = 0
       THEN UNCHANGED connState
       ELSE /\ sess[natEntry].idle
            /\ connState' = [connState EXCEPT ![sess[natEntry].RemoteConn] = "closed"]
    /\ sess' = [sess EXCEPT ![natEntry].removedBy = "sweeper"]
    /\ natEntry' = 0
    /\ UNCHANGED <<notNat, natActive, natDials, reader, gpc, gexisting, gres>>

NatNext ==
    \/ \E c \in Callers :
         \/ GcLoadOrStore(c) \/ GcWaitReady(c) \/ GcWaitTimeout(c)
         \/ GcCheck(c) \/ GcDial(c) \/ GcHandshake(c) \/ GcFailDelete(c)
         \/ GcPublish(c) \/ CopyRemoteToLocalExit(c)
         \/ SessionIdle(c) \/ CopyRemoteToLocalData(c)
         \/ UplinkWrite(c) \/ UplinkAges(c)
    \/ CleanupSweep

InitNat == LifeInit /\ NatInit /\ TcpOff /\ SocksOff /\ TasksOff /\ EchOff /\
    FragOff /\ DnsOff /\ PnOff /\ CfgOff /\ VlessOff /\ SsOff /\ DispOff /\
    HerrOff /\ DlOff /\ LsOff

SpecNat ==
    /\ InitNat
    /\ [][NatNext]_vars

\* C1: concurrent GetOrCreate calls for one key dial at most one outbound,
\* and any two calls that have returned returned the same thing: the same
\* session or the same error.
C1_SingleFlight ==
    /\ natDials <= 1
    /\ \A c, d \in natActive :
         (gpc[c] = "gc_done" /\ gpc[d] = "gc_done") => gres[c] = gres[d]


(***************************************************************************)
(* Stack.handleTCP: the relay of one established session.  Two versions   *)
(* of the relay are in the tree: the one that defers closeAll in both      *)
(* copiers, and the one that half-closes and waits on a WaitGroup.         *)
(***************************************************************************)
TFrame == UNCHANGED <<notTcp, tcpImpl, tM, tN>>

\* the inbound application writes one byte
InSend ==
    /\ inSent < tM /\ ~inShut /\ localConn # "closed"
    /\ inSent' = inSent + 1
    /\ upQ' = upQ + 1
    /\ TFrame
    /\ UNCHANGED <<inShut, outGot, outSent, outClosed, downQ, delivered,
                   localConn, remoteConn, upPc, downPc>>

\* the inbound application has written its M bytes and half-closes
InShut ==
    /\ tcpImpl # "off" /\ inSent = tM /\ ~inShut
    /\ inShut' = TRUE
    /\ TFrame
    /\ UNCHANGED <<inSent, upQ, outGot, outSent, outClosed, downQ, delivered,
                   localConn, remoteConn, upPc, downPc>>

\* after the inbound's half-close the outbound peer writes one byte
OutSend ==
    /\ inShut /\ outSent < tN /\ ~outClosed /\ remoteConn # "closed"
    /\ outSent' = outSent + 1
    /\ downQ' = Append(downQ, outSent + 1)
    /\ TFrame
    /\ UNCHANGED <<inSent, inShut, upQ, outGot, outClosed, delivered,
                   localConn, remoteConn, upPc, downPc>>

\* the outbound peer has written its N bytes and closes
OutClose ==
    /\ inShut /\ outSent = tN /\ ~outClosed
    /\ outClosed' = TRUE
    /\ TFrame
    /\ UNCHANGED <<inSent, inShut, upQ, outGot, outSent, downQ, delivered,
                   localConn, remoteConn, upPc, downPc>>

\* io.Copy(remoteConn, localConn) moves one byte
UpCopy ==
    /\ upPc = "copy" /\ upQ > 0
    /\ localConn # "closed" /\ remoteConn = "open"
    /\ upQ' = upQ - 1
    /\ outGot' = outGot + 1
    /\ TFrame
    /\ UNCHANGED <<inSent, inShut, outSent, outClosed, downQ, delivered,
                   localConn, remoteConn, upPc, downPc>>

\* io.Copy(remoteConn, localConn) returns: EOF from the inbound, a read on
\* a closed localConn, or a write on a remoteConn no longer writable
UpEnd ==
    /\ upPc = "copy"
    /\ \/ localConn = "closed"
       \/ upQ = 0 /\ inShut
       \/ upQ > 0 /\ remoteConn # "open"
    /\ upPc' = "after"
    /\ TFrame
    /\ UNCHANGED <<inSent, inShut, upQ, outGot, outSent, outClosed, downQ,
                   delivered, localConn, remoteConn, downPc>>

\* defer closeAll(): localConn.Close(); remoteConn.Close()
UpCloseAll ==
    /\ upPc = "after" /\ tcpImpl = "closeAll"
    /\ localConn' = "closed"
    /\ remoteConn' = "closed"
    /\ upPc' = "done"
    /\ TFrame
    /\ UNCHANGED <<inSent, inShut, upQ, outGot, outSent, outClosed, downQ,
                   delivered, downPc>>

\* if cw, ok := remoteConn.(interface{ CloseWrite() error }); ok
UpCloseWrite ==
    /\ upPc = "after" /\ tcpImpl = "waitGroup"
    /\ \E ok \in BOOLEAN :
         remoteConn' = IF ok /\ remoteConn = "open" THEN "wclosed"
                       ELSE remoteConn
    /\ upPc' = "wait"
    /\ TFrame
    /\ UNCHANGED <<inSent, inShut, upQ, outGot, outSent, outClosed, downQ,
                   delivered, localConn, downPc>>

\* wg.Wait() returns, then the deferred localConn.Close() and
\* remoteConn.Close() run
UpWait ==
    /\ upPc = "wait" /\ downPc = "done"
    /\ localConn' = "closed"
    /\ remoteConn' = "closed"
    /\ upPc' = "done"
    /\ TFrame
    /\ UNCHANGED <<inSent, inShut, upQ, outGot, outSent, outClosed, downQ,
                   delivered, downPc>>

\* io.Copy(localConn, remoteConn) moves one byte
DownCopy ==
    /\ downPc = "copy" /\ downQ # <<>>
    /\ remoteConn # "closed" /\ localConn = "open"
    /\ delivered' = Append(delivered, Head(downQ))
    /\ downQ' = Tail(downQ)
    /\ TFrame
    /\ UNCHANGED <<inSent, inShut, upQ, outGot, outSent, outClosed,
                   localConn, remoteConn, upPc, downPc>>

\* io.Copy(localConn, remoteConn) returns: EOF from the outbound, a read on
\* a closed remoteConn, or a write on a localConn no longer writable
DownEnd ==
    /\ downPc = "copy"
    /\ \/ remoteConn = "closed"
       \/ downQ = <<>> /\ outClosed
       \/ downQ # <<>> /\ localConn # "open"
    /\ downPc' = "after"
    /\ TFrame
    /\ UNCHANGED <<inSent, inShut, upQ, outGot, outSent, outClosed, downQ,
                   delivered, localConn, remoteConn, upPc>>

\* defer closeAll(): localConn.Close(); remoteConn.Close()
DownCloseAll ==
    /\ downPc = "after" /\ tcpImpl = "closeAll"
    /\ localConn' = "closed"
    /\ remoteConn' = "closed"
    /\ downPc' = "done"
    /\ TFrame
    /\ UNCHANGED <<inSent, inShut, upQ, outGot, outSent, outClosed, downQ,
                   delivered, upPc>>

\* localConn.CloseWrite(); wg.Done()
DownCloseWrite ==
    /\ downPc = "after" /\ tcpImpl = "waitGroup"
    /\ localConn' = IF localConn = "open" THEN "wclosed" ELSE localConn
    /\ downPc' = "done"
    /\ TFrame
    /\ UNCHANGED <<inSent, inShut, upQ, outGot, outSent, outClosed, downQ,
                   delivered, remoteConn, upPc>>

TcpNext ==
    \/ InSend \/ InShut \/ OutSend \/ OutClose
    \/ UpCopy \/ UpEnd \/ UpCloseAll \/ UpCloseWrite \/ UpWait
    \/ DownCopy \/ DownEnd \/ DownCloseAll \/ DownCloseWrite

InitTcp == LifeInit /\ NatOff /\ TcpInit /\ SocksOff /\ TasksOff /\ EchOff /\
    FragOff /\ DnsOff /\ PnOff /\ CfgOff /\ VlessOff /\ SsOff /\ DispOff /\
    HerrOff /\ DlOff /\ LsOff

SpecTcp ==
    /\ InitTcp
    /\ [][TcpNext]_vars

\* the inbound application has been sent the end of the stream
InboundAtEOF == localConn \in {"wclosed", "closed"}

\* C2: when the inbound reaches the end of the stream it has been given
\* exactly the outbound's N bytes, and while the outbound->inbound copier
\* still runs the finished inbound->outbound copier has closed neither
\* connection (at most it half-closed the outbound's write side).
C2_HalfClose ==
    /\ InboundAtEOF => delivered = [i \in 1..tN |-> i]
    /\ (upPc \in {"wait", "done"} /\ downPc = "copy") =>
          (localConn = "open" /\ remoteConn # "closed")


(***************************************************************************)
(* protocol.HandshakeSocks5 (core/protocol/socks5.go)                      *)
(***************************************************************************)
SkAt(label) == skPc = label /\ UNCHANGED <<notSocks, skUser, skPass, skStream,
                                           skReplyEnd>>
SkGoto(label) == skPc' = label /\ UNCHANGED skRet
SkReturn(r) == skRet' = r /\ skPc' = "sk_done"
\* conn.Write(msg) succeeds
SkWrite(msg) == skOut' = Append(skOut, msg)
\* io.ReadFull(conn, buf) with len(buf) = n succeeds
SkCanRead(n) == Len(skIn) >= n
SkTake(n) == skIn' = SubSeq(skIn, n + 1, Len(skIn))
\* io.ReadFull hits the end of the stream: what was there is consumed
SkShort == skIn' = <<>>

\* methods, initBuf
Greeting(username) ==
    LET methods == IF username # <<>> THEN <<2>> ELSE <<0>>
    IN <<5, Len(methods)>> \o methods
\* authBuf
AuthRequest(username, password) ==
    <<1, Len(username)>> \o username \o <<Len(password)>> \o password
\* head ++ addrPayload for the target 1.2.3.4:80
ConnectRequest == <<5, 1, 0>> \o <<1, 1, 2, 3, 4, 0, 80>>

\* a reply body read that forgets BND.PORT
AddrLeftNoPort(atyp, lenByte) ==
    CASE atyp = 1 -> 4
      [] atyp = 4 -> 16
      [] OTHER -> lenByte

\* left, for the ATYPs the switch accepts
AddrLeft(atyp, lenByte) ==
    CASE atyp = 1 -> 4 + 2
      [] atyp = 4 -> 16 + 2
      [] OTHER -> lenByte + 2

\* conn.Write(initBuf)
SkGreet ==
    /\ SkAt("sk_greet")
    /\ \/ SkWrite(Greeting(skUser)) /\ SkGoto("sk_method")
       \/ SkReturn("socks5 init write failed") /\ UNCHANGED skOut
    /\ UNCHANGED <<skIn, skAtyp, skLeft>>

\* io.ReadFull(conn, resp); the version test; the branch on authMethod
SkReadMethod ==
    /\ SkAt("sk_method")
    /\ IF ~SkCanRead(2)
       THEN SkShort /\ SkReturn("socks5 init read failed")
       ELSE /\ SkTake(2)
            /\ IF skIn[1] # 5
               THEN SkReturn("socks5 invalid version")
               ELSE IF skIn[2] = 2
               THEN SkGoto("sk_auth")
               ELSE IF skIn[2] # 0 /\ skIn[2] # 255
               THEN SkReturn("socks5 unsupported auth method")
               ELSE SkGoto("sk_connect")
    /\ UNCHANGED <<skOut, skAtyp, skLeft>>

\* conn.Write(authBuf)
SkAuth ==
    /\ SkAt("sk_auth")
    /\ \/ SkWrite(AuthRequest(skUser, skPass)) /\ SkGoto("sk_authresp")
       \/ SkReturn("socks5 auth write failed") /\ UNCHANGED skOut
    /\ UNCHANGED <<skIn, skAtyp, skLeft>>

\* io.ReadFull(conn, authResp); authResp[1] != 0x00
SkAuthResp ==
    /\ SkAt("sk_authresp")
    /\ IF ~SkCanRead(2)
       THEN SkShort /\ SkReturn("socks5 auth resp read failed")
       ELSE /\ SkTake(2)
            /\ IF skIn[2] # 0
               THEN SkReturn("socks5 authentication failed")
               ELSE SkGoto("sk_connect")
    /\ UNCHANGED <<skOut, skAtyp, skLeft>>

\* conn.Write(append(head, addrPayload...))
SkConnect ==
    /\ SkAt("sk_connect")
    /\ \/ SkWrite(ConnectRequest) /\ SkGoto("sk_head")
       \/ SkReturn("socks5 connect write failed") /\ UNCHANGED skOut
    /\ UNCHANGED <<skIn, skAtyp, skLeft>>

\* io.ReadFull(conn, connRespHead); connRespHead[1] != 0x00
SkReadHead ==
    /\ SkAt("sk_head")
    /\ IF ~SkCanRead(4)
       THEN /\ SkShort
            /\ SkReturn("socks5 connect resp header read failed")
            /\ UNCHANGED skAtyp
       ELSE /\ SkTake(4)
            /\ skAtyp' = skIn[4]
            /\ IF skIn[2] # 0
               THEN SkReturn("socks5 connect failed")
               ELSE SkGoto("sk_atyp")
    /\ UNCHANGED <<skOut, skLeft>>

\* switch connRespHead[3]
SkReadAtyp ==
    /\ SkAt("sk_atyp")
    /\ IF skAtyp \in {1, 4}
       THEN /\ skLeft' = AddrLeft(skAtyp, 0)
            /\ SkGoto("sk_rest")
            /\ UNCHANGED skIn
       ELSE IF skAtyp = 3
       THEN IF ~SkCanRead(1)
            THEN /\ SkShort
                 /\ SkReturn("socks5 read domain len failed")
                 /\ UNCHANGED skLeft
            ELSE /\ SkTake(1)
                 /\ skLeft' = AddrLeft(skAtyp, skIn[1])
                 /\ SkGoto("sk_rest")
       ELSE /\ SkReturn("socks5 invalid address type")
            /\ UNCHANGED <<skIn, skLeft>>
    /\ UNCHANGED <<skOut, skAtyp>>

\* if left > 0 { io.ReadFull(conn, discard) }; return nil
SkReadRest ==
    /\ SkAt("sk_rest")
    /\ IF skLeft > 0 /\ ~SkCanRead(skLeft)
       THEN SkShort /\ SkReturn("socks5 connect resp body read failed")
       ELSE SkTake(skLeft) /\ SkReturn("ok")
    /\ UNCHANGED <<skOut, skAtyp, skLeft>>

SocksNext ==
    \/ SkGreet \/ SkReadMethod \/ SkAuth \/ SkAuthResp \/ SkConnect
    \/ SkReadHead \/ SkReadAtyp \/ SkReadRest

InitSocks == LifeInit /\ NatOff /\ TcpOff /\ SocksInit /\ TasksOff /\
    EchOff /\ FragOff /\ DnsOff /\ PnOff /\ CfgOff /\ VlessOff /\ SsOff /\
    DispOff /\ HerrOff /\ DlOff /\ LsOff

SpecSocks ==
    /\ InitSocks
    /\ [][SocksNext]_vars

\* C3: when HandshakeSocks5 returns success it has read exactly the bytes up
\* to the end of the CONNECT reply (header, BND.ADDR, BND.PORT), so what is
\* left on the stream is the application data, first byte first.
C3_ReplyConsumed ==
    skRet = "ok" =>
        /\ Len(skStream) - Len(skIn) = skReplyEnd
        /\ skIn = SubSeq(skStream, skReplyEnd + 1, Len(skStream))

\* C3 happens: success after a user/pass sub-negotiation and a domain-typed
\* reply, with application data waiting behind the reply
C3_Witness ==
    /\ skRet = "ok"
    /\ Len(skOut) = 3
    /\ skAtyp = 3 /\ skLeft > 2
    /\ skIn # <<>> /\ skIn[1] = 201


(***************************************************************************)
(* The tasks of one tun.Stack: what StartStack and the forwarders spawn,   *)
(* and what Stack.Close stops.                                             *)
(***************************************************************************)
TkFrame == UNCHANGED notTasks

\* StartStack succeeds: NewUDPNatManager starts cleanupLoop
TkStartStack ==
    /\ tkState = "off"
    /\ tkState' = "running"
    /\ tkSweeper' = "ticking"
    /\ TkFrame
    /\ UNCHANGED <<tkCancelled, tkTick, tkDnsMu, tkDnsConn, fKind, fA, fB,
                   fLocal, fRemote>>

\* handleTCP dials, handshakes, creates the endpoint and starts both copiers
TkHandleTcp(f) ==
    /\ tkState = "running" /\ fKind[f] = "none"
    /\ fKind' = [fKind EXCEPT ![f] = "tcp"]
    /\ fA' = [fA EXCEPT ![f] = "run"]
    /\ fB' = [fB EXCEPT ![f] = "run"]
    /\ fLocal' = [fLocal EXCEPT ![f] = "open"]
    /\ fRemote' = [fRemote EXCEPT ![f] = "open"]
    /\ TkFrame
    /\ UNCHANGED <<tkState, tkCancelled, tkSweeper, tkTick, tkDnsMu, tkDnsConn>>

\* handleUDP: GetOrCreate builds the session and starts copyRemoteToLocal,
\* then the uplink loop is started
TkHandleUdp(f) ==
    /\ tkState = "running" /\ fKind[f] = "none"
    /\ fKind' = [fKind EXCEPT ![f] = "udp"]
    /\ fA' = [fA EXCEPT ![f] = "run"]
    /\ fB' = [fB EXCEPT ![f] = "run"]
    /\ fLocal' = [fLocal EXCEPT ![f] = "open"]
    /\ fRemote' = [fRemote EXCEPT ![f] = "open"]
    /\ TkFrame
    /\ UNCHANGED <<tkState, tkCancelled, tkSweeper, tkTick, tkDnsMu, tkDnsConn>>

\* handleUDP for port 53: go s.handleRemoteDNS(localConn)
TkHandleDns(f) ==
    /\ tkState = "running" /\ fKind[f] = "none"
    /\ fKind' = [fKind EXCEPT ![f] = "dns"]
    /\ fA' = [fA EXCEPT ![f] = "read"]
    /\ fLocal' = [fLocal EXCEPT ![f] = "open"]
    /\ TkFrame
    /\ UNCHANGED <<tkState, tkCancelled, tkSweeper, tkTick, tkDnsMu, tkDnsConn, fB,
                   fRemote>>

\* the proxy server ends or resets an outbound connection
TkPeerClose(f) ==
    /\ fRemote[f] = "open"
    /\ fRemote' = [fRemote EXCEPT ![f] = "peerclosed"]
    /\ TkFrame
    /\ UNCHANGED <<tkState, tkCancelled, tkSweeper, tkTick, tkDnsMu, tkDnsConn, fKind,
                   fA, fB, fLocal>>

\* a copier's io.Copy returns; its deferred closeAll closes both conns
TkCloseAll(f) ==
    /\ fLocal' = [fLocal EXCEPT ![f] = "closed"]
    /\ fRemote' = [fRemote EXCEPT ![f] = "closed"]

\* io.Copy(remoteConn, localConn) ends when a conn it uses is closed or
\* the outbound is gone
TkUpCopierExit(f) ==
    /\ fKind[f] = "tcp" /\ fA[f] = "run"
    /\ fLocal[f] = "closed" \/ fRemote[f] # "open"
    /\ fA' = [fA EXCEPT ![f] = "done"]
    /\ TkCloseAll(f)
    /\ TkFrame
    /\ UNCHANGED <<tkState, tkCancelled, tkSweeper, tkTick, tkDnsMu, tkDnsConn, fKind,
                   fB>>

\* io.Copy(localConn, remoteConn) ends likewise
TkDownCopierExit(f) ==
    /\ fKind[f] = "tcp" /\ fB[f] = "run"
    /\ fLocal[f] = "closed" \/ fRemote[f] # "open"
    /\ fB' = [fB EXCEPT ![f] = "done"]
    /\ TkCloseAll(f)
    /\ TkFrame
    /\ UNCHANGED <<tkState, tkCancelled, tkSweeper, tkTick, tkDnsMu, tkDnsConn, fKind,
                   fA>>

\* the uplink loop's localConn.Read fails (its 60 s deadline, or the conn
\* was closed) or its write to RemoteConn fails; defer localConn.Close()
TkUplinkExit(f) ==
    /\ fKind[f] = "udp" /\ fA[f] = "run"
    /\ fA' = [fA EXCEPT ![f] = "done"]
    /\ fLocal' = [fLocal EXCEPT ![f] = "closed"]
    /\ TkFrame
    /\ UNCHANGED <<tkState, tkCancelled, tkSweeper, tkTick, tkDnsMu, tkDnsConn, fKind,
                   fB, fRemote>>

\* copyRemoteToLocal's Read fails (its 60 s deadline, or the conn is closed)
\* or its write to LocalConn fails; the defer closes RemoteConn
TkReaderExit(f) ==
    /\ fKind[f] = "udp" /\ fB[f] = "run"
    /\ fB' = [fB EXCEPT ![f] = "done"]
    /\ fRemote' = [fRemote EXCEPT ![f] = "closed"]
    /\ TkFrame
    /\ UNCHANGED <<tkState, tkCancelled, tkSweeper, tkTick, tkDnsMu, tkDnsConn, fKind,
                   fA, fLocal>>

\* one tick of cleanupLoop: the outbound of every session idle for more
\* than udpTimeout is closed; the loop goes on ranging over ticker.C
TkSweeperTick ==
    /\ tkSweeper = "ticking"
    /\ tkTick' = 1 - tkTick
    /\ \E idle \in SUBSET {f \in Flows : fKind[f] = "udp"
                                        /\ fRemote[f] \in {"open", "peerclosed"}} :
         fRemote' = [f \in Flows |-> IF f \in idle THEN "closed"
                                     ELSE fRemote[f]]
    /\ TkFrame
    /\ UNCHANGED <<tkState, tkCancelled, tkSweeper, tkDnsMu, tkDnsConn, fKind,
                   fA, fB, fLocal>>

\* handleRemoteDNS: localConn.Read with its 5 s deadline
TkDnsRead(f) ==
    /\ fKind[f] = "dns" /\ fA[f] = "read"
    /\ \/ /\ fLocal[f] = "open"
          /\ fA' = [fA EXCEPT ![f] = "lock"]
          /\ UNCHANGED fLocal
       \/ /\ fA' = [fA EXCEPT ![f] = "done"]
          /\ fLocal' = [fLocal EXCEPT ![f] = "closed"]
    /\ TkFrame
    /\ UNCHANGED <<tkState, tkCancelled, tkSweeper, tkTick, tkDnsMu, tkDnsConn, fKind,
                   fB, fRemote>>

\* s.dnsMu.Lock()
TkDnsLock(f) ==
    /\ fKind[f] = "dns" /\ fA[f] = "lock"
    /\ tkDnsMu = 0
    /\ tkDnsMu' = f
    /\ fA' = [fA EXCEPT ![f] = "query"]
    /\ TkFrame
    /\ UNCHANGED <<tkState, tkCancelled, tkSweeper, tkTick, tkDnsConn, fKind,
                   fB, fLocal, fRemote>>

\* the retry loop: dial when s.dnsConn is nil, exchange under 5 s deadlines;
\* s.dnsConn is left open after a success and nil after a failure; then
\* the deferred dnsMu.Unlock() and localConn.Close()
TkDnsQuery(f) ==
    /\ fKind[f] = "dns" /\ fA[f] = "query"
    /\ \E after \in {"open", "nil"} : tkDnsConn' = after
    /\ tkDnsMu' = 0
    /\ fA' = [fA EXCEPT ![f] = "done"]
    /\ fLocal' = [fLocal EXCEPT ![f] = "closed"]
    /\ TkFrame
    /\ UNCHANGED <<tkState, tkCancelled, tkSweeper, tkTick, fKind, fB,
                   fRemote>>

\* Stack.Close: cancel(), close dnsConn under dnsMu, device.Close(),
\* stack.Close() which closes every endpoint of the netstack
TkClose ==
    /\ tkState = "running"
    /\ tkDnsMu = 0
    /\ tkState' = "closed"
    /\ tkCancelled' = TRUE
    /\ tkDnsConn' = "nil"
    /\ fLocal' = [f \in Flows |-> IF fLocal[f] = "open" THEN "closed"
                                 ELSE fLocal[f]]
    /\ TkFrame
    /\ UNCHANGED <<tkSweeper, tkTick, tkDnsMu, fKind, fA, fB, fRemote>>

TasksNext ==
    \/ TkStartStack
    \/ \E f \in Flows :
         \/ TkHandleTcp(f) \/ TkHandleUdp(f) \/ TkHandleDns(f)
         \/ TkPeerClose(f)
         \/ TkUpCopierExit(f) \/ TkDownCopierExit(f) \/ TkUplinkExit(f)
         \/ TkReaderExit(f)
         \/ TkDnsRead(f) \/ TkDnsLock(f) \/ TkDnsQuery(f)
    \/ TkSweeperTick
    \/ TkClose

\* every goroutine that can take a step is scheduled; the host and the
\* network are under no obligation
TasksFairness ==
    /\ WF_vars(TkSweeperTick)
    /\ \A f \in Flows :
        /\ WF_vars(TkUpCopierExit(f)) /\ WF_vars(TkDownCopierExit(f))
        /\ WF_vars(TkUplinkExit(f)) /\ WF_vars(TkReaderExit(f))
        /\ WF_vars(TkDnsRead(f)) /\ WF_vars(TkDnsLock(f))
        /\ WF_vars(TkDnsQuery(f))

InitTasks == LifeInit /\ NatOff /\ TcpOff /\ SocksOff /\ TasksInit /\
    EchOff /\ FragOff /\ DnsOff /\ PnOff /\ CfgOff /\ VlessOff /\ SsOff /\
    DispOff /\ HerrOff /\ DlOff /\ LsOff

SpecTasks ==
    /\ InitTasks
    /\ [][TasksNext]_vars
    /\ TasksFairness

\* nothing of the instance is left: no task runs and no outbound is open
TasksAllGone ==
    /\ tkSweeper # "ticking"
    /\ tkDnsConn = "nil"
    /\ \A f \in Flows :
         /\ fA[f] \in {"none", "done"}
         /\ fB[f] \in {"none", "done"}
         /\ fRemote[f] \in {"none", "closed"}

\* C9: once the Stack has been closed, every task it spawned eventually has
\* terminated and every outbound it opened eventually has been closed.
C9_NoFlowLeak == (tkState = "closed") ~> TasksAllGone


(***************************************************************************)
(* Dialer.Dial: the ECH configuration cache (core/proxy/dialer.go)         *)
(***************************************************************************)
DAt(d, label) == dPc[d] = label /\ UNCHANGED notEch
DGoto(d, label) == dPc' = [dPc EXCEPT ![d] = label]

\* Dial on a configuration with TLS.Enabled, EnableECH and a DoH URL:
\* queryDomain := ECHPublicName, or ServerName when that is empty
DialBegin(d) ==
    /\ DAt(d, "idle")
    /\ \E dom \in Domains : dDomain' = [dDomain EXCEPT ![d] = dom]
    /\ DGoto(d, "lookup")
    /\ UNCHANGED <<echCache, echResolved, echQueries, dCfg>>

\* echCacheMutex.RLock(); cached, ok := echCache[queryDomain]; RUnlock()
DialLookup(d) ==
    /\ DAt(d, "lookup")
    /\ IF dDomain[d] \in echCache
       THEN /\ dCfg' = [dCfg EXCEPT ![d] = TRUE]
            /\ DGoto(d, "done")
       ELSE /\ DGoto(d, "resolve")
            /\ UNCHANGED dCfg
    /\ UNCHANGED <<echCache, echResolved, echQueries, dDomain>>

\* configs, err := resolveECHConfig(ctx, ECHDoHURL, queryDomain)
DialResolve(d) ==
    /\ DAt(d, "resolve")
    /\ echQueries' = [echQueries EXCEPT ![dDomain[d]] = @ + 1]
    /\ \/ /\ echResolved' = [echResolved EXCEPT ![dDomain[d]] = @ + 1]
          /\ dCfg' = [dCfg EXCEPT ![d] = TRUE]
          /\ DGoto(d, "store")
       \/ /\ DGoto(d, "done")
          /\ UNCHANGED <<echResolved, dCfg>>
    /\ UNCHANGED <<echCache, dDomain>>

\* echCacheMutex.Lock(); echCache[queryDomain] = configs; Unlock()
DialStore(d) ==
    /\ DAt(d, "store")
    /\ echCache' = echCache \cup {dDomain[d]}
    /\ DGoto(d, "done")
    /\ UNCHANGED <<echResolved, echQueries, dDomain, dCfg>>

EchNext ==
    \E d \in Dials :
        DialBegin(d) \/ DialLookup(d) \/ DialResolve(d) \/ DialStore(d)

InitEch == LifeInit /\ NatOff /\ TcpOff /\ SocksOff /\ TasksOff /\ EchInit /\
    FragOff /\ DnsOff /\ PnOff /\ CfgOff /\ VlessOff /\ SsOff /\ DispOff /\
    HerrOff /\ DlOff /\ LsOff

SpecEch ==
    /\ InitEch
    /\ [][EchNext]_vars

\* C11: for every query domain at most one resolveECHConfig call succeeds
\* in the life of the process, however the dials interleave, and a domain
\* is in the cache only after a resolution of it succeeded.
C11_EchResolvedOnce ==
    /\ \A dom \in Domains : echResolved[dom] <= 1
    /\ \A dom \in echCache : echResolved[dom] >= 1


(***************************************************************************)
(* FragmentConn.Write (core/proxy/dialer.go)                               *)
(***************************************************************************)
\* a payload of n bytes whose first byte is b0
Payload(b0, n) == [i \in 1..n |-> IF i = 1 THEN b0 ELSE i % 256]

Payloads ==
    { Payload(b0, n) :
        b0 \in {TlsHandshake, TlsHandshake + 1},
        n \in {1, FragThreshold} \cup
              (FragThreshold + 1)..(FragThreshold + MaxOver) }

\* len(b) > 50 && b[0] == 0x16
IsClientHello(b) == Len(b) > FragThreshold /\ b[1] = TlsHandshake

RECURSIVE Concat(_)
Concat(parts) ==
    IF parts = <<>> THEN <<>> ELSE Head(parts) \o Concat(Tail(parts))

\* b[:cut] and b[cut:] with a tail that starts one byte late
FragSplitSkip(b, cut) == <<SubSeq(b, 1, cut), SubSeq(b, cut + 2, Len(b))>>

\* b[:cut] and b[cut:]
FragSplit(b, cut) == <<SubSeq(b, 1, cut), SubSeq(b, cut + 1, Len(b))>>

\* the first `n` underlying writes of `parts` succeeded; a Write that
\* returns an error is the last one made on the connection
FragDone(b, parts, n) ==
    /\ fgCalls' = IF n < Len(parts) THEN MaxWrites ELSE fgCalls + 1
    /\ fgMatched' = fgMatched + (IF IsClientHello(b) THEN 1 ELSE 0)
    /\ fgLastB' = b
    /\ fgLastParts' = SubSeq(parts, 1, n)
    /\ fgLastErr' = (n < Len(parts))
    /\ fgStream' = fgStream \o Concat(SubSeq(parts, 1, n))

\* FragmentConn.Write(b) taking the branch that splits
FragWriteSplit ==
    /\ fgCalls < MaxWrites
    /\ fgOn
    /\ \E b \in Payloads, r \in 0..(CutSpan - 1) :
        /\ fgActive /\ IsClientHello(b)
        /\ fgActive' = FALSE
        /\ \E n \in 0..2 : FragDone(b, FragSplit(b, CutBase + r), n)
    /\ UNCHANGED <<fgOn, notFrag>>

\* FragmentConn.Write(b) falling through to f.Conn.Write(b)
FragWritePass ==
    /\ fgCalls < MaxWrites
    /\ fgOn
    /\ \E b \in Payloads :
        /\ ~(fgActive /\ IsClientHello(b))
        /\ \E n \in 0..1 : FragDone(b, <<b>>, n)
    /\ UNCHANGED <<fgOn, fgActive, notFrag>>

\* Write on the connection Dial left unwrapped
ConnWrite ==
    /\ fgCalls < MaxWrites
    /\ ~fgOn
    /\ \E b \in Payloads, n \in 0..1 : FragDone(b, <<b>>, n)
    /\ UNCHANGED <<fgOn, fgActive, notFrag>>

FragNext == FragWriteSplit \/ FragWritePass \/ ConnWrite

InitFrag == LifeInit /\ NatOff /\ TcpOff /\ SocksOff /\ TasksOff /\ EchOff /\
    FragInit /\ DnsOff /\ PnOff /\ CfgOff /\ VlessOff /\ SsOff /\ DispOff /\
    HerrOff /\ DlOff /\ LsOff

SpecFrag ==
    /\ InitFrag
    /\ [][FragNext]_vars

Frame(q) == << <<"len", q>>, <<"body", q>> >>

\* the query a length token and a body token make up, -1 when they are not
\* the two halves of one message
Message(lenTok, bodyTok) ==
    IF lenTok[1] = "len" /\ bodyTok[1] = "body" /\ lenTok[2] = bodyTok[2]
    THEN bodyTok[2]
    ELSE -1

QAt(f, label) == qPc[f] = label /\ UNCHANGED notDns
QGoto(f, label) == qPc' = [qPc EXCEPT ![f] = label]

\* return: the deferred s.dnsMu.Unlock() and localConn.Close()
QReturn(f) ==
    /\ QGoto(f, "done")
    /\ dnsMu' = 0

\* continue, with the connection left open and cached
QResetKeep(f) ==
    /\ qTry' = [qTry EXCEPT ![f] = @ + 1]
    /\ QGoto(f, "loop")
    /\ UNCHANGED <<dnsOpen, dnsConn>>

\* s.dnsConn.Close(); s.dnsConn = nil; continue
QReset(f) ==
    /\ dnsOpen' = dnsOpen \ {dnsConn}
    /\ dnsConn' = 0
    /\ qTry' = [qTry EXCEPT ![f] = @ + 1]
    /\ QGoto(f, "loop")

\* n, err := localConn.Read(buf)
QRecv(f) ==
    /\ QAt(f, "recv")
    /\ \/ QGoto(f, "lock")
       \/ QGoto(f, "done")
    /\ UNCHANGED <<dnsMu, dnsConn, dnsOpen, dnsDialed, dnsOut, dnsServed,
                   dnsIn, dnsClosed, qTry, qLen, qResp>>

\* s.dnsMu.Lock() that does not wait for the holder
QLockNoWait(f) ==
    /\ QAt(f, "lock")
    /\ dnsMu' = f
    /\ QGoto(f, "loop")
    /\ UNCHANGED <<dnsConn, dnsOpen, dnsDialed, dnsOut, dnsServed, dnsIn,
                   dnsClosed, qTry, qLen, qResp>>

\* s.dnsMu.Lock()
QLock(f) ==
    /\ QAt(f, "lock")
    /\ dnsMu = 0
    /\ dnsMu' = f
    /\ QGoto(f, "loop")
    /\ UNCHANGED <<dnsConn, dnsOpen, dnsDialed, dnsOut, dnsServed, dnsIn,
                   dnsClosed, qTry, qLen, qResp>>

\* for i := 0; i < 2; i++ { if s.dnsConn == nil { dial, handshake } ...
QLoop(f) ==
    /\ QAt(f, "loop")
    /\ IF qTry[f] >= 2
       THEN /\ QReturn(f)
            /\ UNCHANGED <<dnsConn, dnsOpen, dnsDialed, qTry>>
       ELSE IF dnsConn # 0
       THEN /\ QGoto(f, "write")
            /\ UNCHANGED <<dnsMu, dnsConn, dnsOpen, dnsDialed, qTry>>
       ELSE \/ \* s.dialer.Dial() fails: return
               /\ QReturn(f)
               /\ UNCHANGED <<dnsConn, dnsOpen, dnsDialed, qTry>>
            \/ \* dialed, HandshakeSocks5 fails: proxyConn.Close(); return
               /\ dnsDialed < MaxConns
               /\ dnsDialed' = dnsDialed + 1
               /\ QReturn(f)
               /\ UNCHANGED <<dnsConn, dnsOpen, qTry>>
            \/ \* dialed, proxyConn.Write(payload) fails: Close(); continue
               /\ dnsDialed < MaxConns
               /\ dnsDialed' = dnsDialed + 1
               /\ qTry' = [qTry EXCEPT ![f] = @ + 1]
               /\ UNCHANGED <<dnsMu, dnsConn, dnsOpen, qPc>>
            \/ \* s.dnsConn = proxyConn
               /\ dnsDialed < MaxConns
               /\ dnsDialed' = dnsDialed + 1
               /\ dnsConn' = dnsDialed + 1
               /\ dnsOpen' = dnsOpen \cup {dnsDialed + 1}
               /\ QGoto(f, "write")
               /\ UNCHANGED <<dnsMu, qTry>>
    /\ UNCHANGED <<dnsOut, dnsServed, dnsIn, dnsClosed, qLen, qResp>>

\* s.dnsConn.Write(reqData): the length prefix and the body in one Write
QWrite(f) ==
    /\ QAt(f, "write")
    /\ IF dnsConn = 0
       THEN \* a nil s.dnsConn: the method call panics
            /\ QGoto(f, "panic")
            /\ UNCHANGED <<dnsConn, dnsOpen, dnsOut, qTry>>
       ELSE \/ /\ dnsConn \in dnsOpen
               /\ dnsOut' = [dnsOut EXCEPT ![dnsConn] = @ \o Frame(f)]
               /\ QGoto(f, "rlen")
               /\ UNCHANGED <<dnsConn, dnsOpen, qTry>>
            \/ /\ QReset(f)
               /\ UNCHANGED dnsOut
    /\ UNCHANGED <<dnsMu, dnsDialed, dnsServed, dnsIn, dnsClosed, qLen, qResp>>

\* io.ReadFull(s.dnsConn, lenBuf)
QReadLen(f) ==
    /\ QAt(f, "rlen")
    /\ IF dnsConn = 0
       THEN /\ QGoto(f, "panic")
            /\ UNCHANGED <<dnsConn, dnsOpen, dnsIn, qTry, qLen>>
       ELSE \/ /\ dnsConn \in dnsOpen
               /\ dnsIn[dnsConn] # <<>>
               /\ qLen' = [qLen EXCEPT ![f] = Head(dnsIn[dnsConn])]
               /\ dnsIn' = [dnsIn EXCEPT ![dnsConn] = Tail(@)]
               /\ QGoto(f, "rbody")
               /\ UNCHANGED <<dnsConn, dnsOpen, qTry>>
            \/ \* the 5 s deadline passes, or the connection is gone
               /\ QReset(f)
               /\ UNCHANGED <<dnsIn, qLen>>
    /\ UNCHANGED <<dnsMu, dnsDialed, dnsOut, dnsServed, dnsClosed, qResp>>

\* io.ReadFull(s.dnsConn, respBuf); localConn.Write(respBuf); return
QReadBody(f) ==
    /\ QAt(f, "rbody")
    /\ IF dnsConn = 0
       THEN /\ QGoto(f, "panic")
            /\ UNCHANGED <<dnsMu, dnsConn, dnsOpen, dnsIn, qTry, qResp>>
       ELSE \/ /\ dnsConn \in dnsOpen
               /\ dnsIn[dnsConn] # <<>>
               /\ qResp' = [qResp EXCEPT
                               ![f] = Message(qLen[f], Head(dnsIn[dnsConn]))]
               /\ dnsIn' = [dnsIn EXCEPT ![dnsConn] = Tail(@)]
               /\ QReturn(f)
               /\ UNCHANGED <<dnsConn, dnsOpen, qTry>>
            \/ /\ QReset(f)
               /\ UNCHANGED <<dnsMu, dnsIn, qResp>>
    /\ UNCHANGED <<dnsDialed, dnsOut, dnsServed, dnsClosed, qLen>>

\* the resolver behind the tunnel answers the next message it was sent
ResolverAnswer(c) ==
    /\ c \in dnsOpen
    /\ 2 * dnsServed[c] + 2 <= Len(dnsOut[c])
    /\ dnsServed' = [dnsServed EXCEPT ![c] = @ + 1]
    /\ dnsIn' = [dnsIn EXCEPT ![c] =
                    @ \o Frame(Message(dnsOut[c][2 * dnsServed[c] + 1],
                                       dnsOut[c][2 * dnsServed[c] + 2]))]
    /\ UNCHANGED <<dnsMu, dnsConn, dnsOpen, dnsDialed, dnsOut, dnsClosed, qPc,
                   qTry, qLen, qResp, notDns>>

\* Stack.Close: under s.dnsMu, close and clear s.dnsConn
DnsStackClose ==
    /\ ~dnsClosed
    /\ dnsMu = 0
    /\ dnsClosed' = TRUE
    /\ dnsOpen' = dnsOpen \ {dnsConn}
    /\ dnsConn' = 0
    /\ UNCHANGED <<dnsMu, dnsDialed, dnsOut, dnsServed, dnsIn, qPc, qTry,
                   qLen, qResp, notDns>>

DnsNext ==
    \/ \E f \in Queries :
         \/ QRecv(f) \/ QLock(f) \/ QLoop(f)
         \/ QWrite(f) \/ QReadLen(f) \/ QReadBody(f)
    \/ \E c \in ConnIds : ResolverAnswer(c)
    \/ DnsStackClose

InitDns == LifeInit /\ NatOff /\ TcpOff /\ SocksOff /\ TasksOff /\ EchOff /\
    FragOff /\ DnsInit /\ PnOff /\ CfgOff /\ VlessOff /\ SsOff /\ DispOff /\
    HerrOff /\ DlOff /\ LsOff

SpecDns ==
    /\ InitDns
    /\ [][DnsNext]_vars

\* every token stream is a sequence of whole messages
WellFramed(stream) ==
    /\ Len(stream) % 2 = 0
    /\ \A k \in 1..(Len(stream) \div 2) :
          Message(stream[2 * k - 1], stream[2 * k]) >= 0

\* C13: with any number of UDP/53 flows in flight at most one tunnelled DNS
\* connection is open and it is the cached one, every query goes onto the
\* connection as a length prefix directly followed by its own body, and a
\* flow that is answered gets the answer to its own query.
C13_DnsNoCrossTalk ==
    /\ Cardinality(dnsOpen) <= 1
    /\ dnsOpen \subseteq {dnsConn}
    /\ \A c \in ConnIds : WellFramed(dnsOut[c])
    /\ \A f \in Queries : qResp[f] \in {0, f}
    /\ \A f \in Queries : qPc[f] # "panic"

\* every flow was answered, all over the one connection that was ever dialed
C13_Witness ==
    /\ dnsDialed = 1
    /\ Len(dnsOut[1]) = 2 * MaxQueries
    /\ \A f \in Queries : qResp[f] = f


(***************************************************************************)
(* Panics in the per-flow goroutines of Stack (core/proxy/handler.go)      *)
(***************************************************************************)
\* the goroutine function has a deferred recover(): only handleTCP does
Recovers(kind, task) == kind = "tcp" /\ task = "handler"

\* the forwarder callbacks: go s.handleTCP(r), and s.handleUDP(r) run on
\* the goroutine that dispatches the packet
PnAccept(f) ==
    /\ ~pnCrashed
    /\ pnKind[f] = "none"
    /\ \E kind \in {"tcp", "udp", "dns"} : pnKind' = [pnKind EXCEPT ![f] = kind]
    /\ pnHandler' = [pnHandler EXCEPT ![f] = "running"]
    /\ UNCHANGED <<pnCrashed, pnA, pnB, notPn>>

\* the handler returns: handleTCP after starting its two copiers, handleUDP
\* after `go s.handleRemoteDNS` (port 53) or after GetOrCreate started the
\* reader and the uplink goroutine; it starts none when its dial failed
PnHandlerReturn(f) ==
    /\ ~pnCrashed
    /\ pnHandler[f] = "running"
    /\ pnHandler' = [pnHandler EXCEPT ![f] = "done"]
    /\ \/ /\ pnA' = [pnA EXCEPT ![f] = "running"]
          /\ pnB' = [pnB EXCEPT ![f] =
                        IF pnKind[f] = "dns" THEN "none" ELSE "running"]
       \/ UNCHANGED <<pnA, pnB>>
    /\ UNCHANGED <<pnCrashed, pnKind, notPn>>

\* a spawned goroutine finishes
PnTaskExit(f) ==
    /\ ~pnCrashed
    /\ \/ /\ pnA[f] = "running"
          /\ pnA' = [pnA EXCEPT ![f] = "done"]
          /\ UNCHANGED pnB
       \/ /\ pnB[f] = "running"
          /\ pnB' = [pnB EXCEPT ![f] = "done"]
          /\ UNCHANGED pnA
    /\ UNCHANGED <<pnCrashed, pnKind, pnHandler, notPn>>

\* a panic in goroutine `task` of flow f: recovered where the function
\* defers recover(), the end of the process anywhere else
PnPanicIn(f, task, state) ==
    /\ ~pnCrashed
    /\ state[f] = "running"
    /\ IF Recovers(pnKind[f], task)
       THEN /\ pnHandler' = [pnHandler EXCEPT ![f] = "recovered"]
            /\ UNCHANGED pnCrashed
       ELSE /\ pnCrashed' = TRUE
            /\ UNCHANGED pnHandler
    /\ UNCHANGED <<pnKind, pnA, pnB, notPn>>

PnPanic(f) ==
    \/ PnPanicIn(f, "handler", pnHandler)
    \/ PnPanicIn(f, "a", pnA)
    \/ PnPanicIn(f, "b", pnB)

PnNext ==
    \E f \in Flows :
        PnAccept(f) \/ PnHandlerReturn(f) \/ PnTaskExit(f) \/ PnPanic(f)

InitPn == LifeInit /\ NatOff /\ TcpOff /\ SocksOff /\ TasksOff /\ EchOff /\
    FragOff /\ DnsOff /\ PnInit /\ CfgOff /\ VlessOff /\ SsOff /\ DispOff /\
    HerrOff /\ DlOff /\ LsOff

SpecPn ==
    /\ InitPn
    /\ [][PnNext]_vars

\* C14: a panic in any goroutine of a flow (the TCP handler, the UDP handler
\* and the session creation it runs, the DNS handler, the copiers and the
\* uplink) is caught: the process is never terminated by one.
C14_PanicContained == ~pnCrashed


(***************************************************************************)
(* ParseConfig, StartVpn and the protocol switch of handleTCP              *)
(***************************************************************************)
\* the five protocol tags of the configuration format
ProtocolTags == {"mandala", "trojan", "vless", "shadowsocks", "socks5"}

\* config.ParseConfig: json.Unmarshal, then the username fallback
ParseConfig(in) ==
    IF ~in.json
    THEN [err |-> TRUE, cfg |-> NoCfg]
    ELSE [err |-> FALSE,
          cfg |-> IF in.type \in {"socks", "socks5"}
                     /\ in.username = "" /\ in.uuid # ""
                  THEN [in EXCEPT !.username = in.uuid]
                  ELSE in]

\* strings.ToLower on the explored type values
ToLower(type) == IF type = "Trojan" THEN "trojan" ELSE type

\* the switch of handleTCP: what the flow puts first on the proxy stream;
\* a type no case matches leaves payload empty and hErr nil
Handshake(type) ==
    IF ToLower(type) \in {"mandala", "trojan", "vless", "shadowsocks"}
    THEN ToLower(type)
    ELSE IF ToLower(type) \in {"socks", "socks5"}
    THEN "socks5"
    ELSE "none"

\* mobile.StartVpn up to its return
CfgStartVpn ==
    /\ cgPhase = "input"
    /\ LET p == ParseConfig(cgIn) IN
         IF p.err
         THEN /\ cgRet' = "Config Error"
              /\ cgPhase' = "rejected"
              /\ UNCHANGED cgCfg
         ELSE /\ cgCfg' = p.cfg
              /\ \/ /\ cgRet' = "Stack Error"
                    /\ cgPhase' = "rejected"
                 \/ /\ cgRet' = ""
                    /\ cgPhase' = "running"
    /\ UNCHANGED <<cgIn, cgFlows, cgSent, notCfg>>

\* Stack.handleTCP for one flow: dial, handshake, and the flow forwarded
CfgHandleTCP ==
    /\ cgPhase = "running"
    /\ cgFlows < MaxCfgFlows
    /\ cgFlows' = cgFlows + 1
    /\ \/ \* s.dialer.Dial() fails
          UNCHANGED cgSent
       \/ \* hErr != nil, or the payload write fails
          /\ Handshake(cgCfg.type) # "none"
          /\ UNCHANGED cgSent
       \/ cgSent' = cgSent \cup {Handshake(cgCfg.type)}
    /\ UNCHANGED <<cgIn, cgPhase, cgRet, cgCfg, notCfg>>

CfgNext == CfgStartVpn \/ CfgHandleTCP

InitCfg == LifeInit /\ NatOff /\ TcpOff /\ SocksOff /\ TasksOff /\ EchOff /\
    FragOff /\ DnsOff /\ PnOff /\ CfgInit /\ VlessOff /\ SsOff /\ DispOff /\
    HerrOff /\ DlOff /\ LsOff

SpecCfg ==
    /\ InitCfg
    /\ [][CfgNext]_vars

\* C15: StartVpn on a well-formed configuration whose type is none of the
\* five protocol tags returns a non-empty error and leaves no instance
\* running, and no flow is forwarded without a protocol header.
C15_UnknownTypeRejected ==
    /\ (cgPhase \in {"rejected", "running"} /\ cgIn.json
            /\ cgIn.type \notin ProtocolTags)
        => (cgRet # "" /\ cgPhase = "rejected")
    /\ "none" \notin cgSent

\* C16: the parsed configuration has username = uuid when type is
\* shadowsocks or socks5, uuid is non-empty and username is empty, and the
\* username of the input in every other case.
C16_UsernameAlias ==
    cgCfg # NoCfg =>
        cgCfg.username =
            IF cgIn.type \in {"shadowsocks", "socks5"}
               /\ cgIn.uuid # "" /\ cgIn.username = ""
            THEN cgIn.uuid
            ELSE cgIn.username


(***************************************************************************)
(* VLESS: header, then NewVlessConn, then reads through the wrapper        *)
(***************************************************************************)
\* remoteConn.Write(payload) with the VLESS request header
VlWriteHeader ==
    /\ vlPhase = "dialed"
    /\ \/ vlPhase' = "sent"
       \/ vlPhase' = "failed"
    /\ UNCHANGED <<vlSite, vlPayload, vlServer, vlPending, vlStripped,
                   vlDropped, vlDelivered, notVless>>

\* remoteConn = protocol.NewVlessConn(remoteConn)
VlWrap ==
    /\ vlPhase = "sent"
    /\ vlPhase' = "wrapped"
    /\ UNCHANGED <<vlSite, vlPayload, vlServer, vlPending, vlStripped,
                   vlDropped, vlDelivered, notVless>>

\* the server, having the request, sends the next bytes of its answer
VlServerSend ==
    /\ vlPhase \in {"sent", "wrapped"}
    /\ \E k \in 1..Len(vlServer) :
        /\ vlPending' = vlPending \o SubSeq(vlServer, 1, k)
        /\ vlServer' = SubSeq(vlServer, k + 1, Len(vlServer))
    /\ UNCHANGED <<vlSite, vlPhase, vlPayload, vlStripped, vlDropped,
                   vlDelivered, notVless>>

\* a response taken to have no addons
ResponseLenNoAddons(pending) == 2

\* the length of the response at the head of `pending`: version,
\* addons_len and addons_len bytes of addons
ResponseLen(pending) == 2 + pending[2]

\* VlessConn.Read, first call: read and drop the response
VlReadResponse ==
    /\ vlPhase = "wrapped"
    /\ ~vlStripped
    /\ Len(vlPending) >= 2
    /\ Len(vlPending) >= ResponseLen(vlPending)
    /\ vlPending' = SubSeq(vlPending, ResponseLen(vlPending) + 1,
                           Len(vlPending))
    /\ vlStripped' = TRUE
    /\ vlDropped' = ResponseLen(vlPending)
    /\ UNCHANGED <<vlSite, vlPhase, vlPayload, vlServer, vlDelivered,
                   notVless>>

\* VlessConn.Read once the response is gone: the underlying Read
VlReadData ==
    /\ vlPhase = "wrapped"
    /\ vlStripped
    /\ \E k \in 1..Len(vlPending) :
        /\ vlDelivered' = vlDelivered \o SubSeq(vlPending, 1, k)
        /\ vlPending' = SubSeq(vlPending, k + 1, Len(vlPending))
    /\ UNCHANGED <<vlSite, vlPhase, vlPayload, vlServer, vlStripped,
                   vlDropped, notVless>>

VlessNext ==
    VlWriteHeader \/ VlWrap \/ VlServerSend \/ VlReadResponse \/ VlReadData

InitVless == LifeInit /\ NatOff /\ TcpOff /\ SocksOff /\ TasksOff /\ EchOff /\
    FragOff /\ DnsOff /\ PnOff /\ CfgOff /\ VlessInit /\ SsOff /\ DispOff /\
    HerrOff /\ DlOff /\ LsOff

SpecVless ==
    /\ InitVless
    /\ [][VlessNext]_vars

IsPrefix(p, q) == Len(p) <= Len(q) /\ p = SubSeq(q, 1, Len(p))

ToSocksAddr(host, port) ==
    LET addr == CASE host.kind = "ip4" -> <<1>> \o host.bytes
                  [] host.kind = "ip6" -> <<4>> \o host.bytes
                  [] OTHER -> <<3, Len(host.bytes)>> \o host.bytes
    IN  addr \o <<port \div 256, port % 256>>

\* the payload of the earlier BuildShadowsocksPayload: the address alone
BuildShadowsocksPayloadNoSalt(salt, host, port) == ToSocksAddr(host, port)

\* finalPayload: salt, then addr
BuildShadowsocksPayload(salt, host, port) == salt \o ToSocksAddr(host, port)

\* payload, hErr = protocol.BuildShadowsocksPayload(targetHost, targetPort)
SsBuild ==
    /\ ssPhase = "input"
    /\ \/ \* io.ReadFull(rand.Reader, salt) fails
          /\ ssPhase' = "error"
          /\ UNCHANGED ssPayload
       \/ \E salt \in Salts :
            /\ ssPayload' = BuildShadowsocksPayload(salt, ssHost, ssPort)
            /\ ssPhase' = "built"
    /\ UNCHANGED <<ssHost, ssPort, ssWire, notSs>>

\* remoteConn.Write(payload)
SsSend ==
    /\ ssPhase = "built"
    /\ \/ /\ ssWire' = ssWire \o ssPayload
          /\ ssPhase' = "sent"
       \/ /\ ssPhase' = "error"
          /\ UNCHANGED ssWire
    /\ UNCHANGED <<ssHost, ssPort, ssPayload, notSs>>

SsNext == SsBuild \/ SsSend

InitSs == LifeInit /\ NatOff /\ TcpOff /\ SocksOff /\ TasksOff /\ EchOff /\
    FragOff /\ DnsOff /\ PnOff /\ CfgOff /\ VlessOff /\ SsInit /\ DispOff /\
    HerrOff /\ DlOff /\ LsOff

SpecSs ==
    /\ InitSs
    /\ [][SsNext]_vars

C19_CloseAfterBothCopiers ==
    (localConn = "closed" \/ remoteConn = "closed") =>
        (upPc # "copy" /\ downPc # "copy")


GetOrCreateStep(c) ==
    \/ GcLoadOrStore(c) \/ GcWaitReady(c) \/ GcWaitTimeout(c)
    \/ GcCheck(c) \/ GcDial(c) \/ GcHandshake(c) \/ GcFailDelete(c)
    \/ GcPublish(c)

\* s.RemoteConn.Read on a closed connection returns an error
ReaderSeesClose(c) == connState[c] = "closed" /\ CopyRemoteToLocalExit(c)

NatFairness ==
    \A c \in Callers :
        WF_vars(GetOrCreateStep(c)) /\ WF_vars(ReaderSeesClose(c))

SpecNatFair ==
    /\ InitNat
    /\ [][NatNext]_vars
    /\ NatFairness

\* the caller found an entry in the table and did not store its own
IsLoser(c) == gexisting[c] # 0

TimedOut(c) == gres[c].err = "wait for udp session init timeout"

C22_FailedInitCleanup ==
    \A c \in Callers :
        /\ gpc[c] = "gc_faildel" =>
              (Failed(sess[c]) /\ connState[c] # "open")
        /\ (gpc[c] = "gc_done" /\ ~IsLoser(c) /\ gres[c].kind = "error") =>
              /\ Failed(sess[c])
              /\ natEntry # c
              /\ connState[c] # "open"

\* a handshake failed, the placeholder went away, and a later call for the
\* key became the winner of a fresh construction
C22_Witness ==
    \E c, d \in Callers :
        /\ gpc[c] = "gc_done" /\ ~IsLoser(c)
        /\ gres[c].err = "handshake error"
        /\ connState[c] = "closed"
        /\ natEntry = d /\ d # c
        /\ natDials = 2


RECURSIVE QueriesOf(_, _)
QueriesOf(f, stream) ==
    IF stream = <<>> THEN 0
    ELSE (IF Head(stream) = <<"len", f>> THEN 1 ELSE 0)
         + QueriesOf(f, Tail(stream))

RECURSIVE SumOver(_, _, _)
SumOver(f, conns, n) ==
    IF n = 0 THEN 0
    ELSE QueriesOf(f, conns[n]) + SumOver(f, conns, n - 1)

\* C25: a query is attempted at most twice; when the handler is back at
\* the head of its loop after an I/O error no DNS connection is open or
\* cached; a handler that has returned does not hold the mutex, and one
\* that used up both attempts delivered no answer.
C25_DnsRetry ==
    \A f \in Queries :
        /\ qTry[f] <= 2
        /\ SumOver(f, dnsOut, MaxConns) <= 2
        /\ (qPc[f] = "loop" /\ qTry[f] > 0) => (dnsConn = 0 /\ dnsOpen = {})
        /\ qPc[f] = "done" => dnsMu # f
        /\ (qPc[f] = "done" /\ qTry[f] = 2) => qResp[f] = 0

\* a query was written on two connections, both reads failed, and the
\* handler gave up
C25_Witness ==
    \E f \in Queries :
        /\ qPc[f] = "done" /\ qTry[f] = 2
        /\ SumOver(f, dnsOut, MaxConns) = 2
        /\ dnsConn = 0 /\ dnsMu = 0


(***************************************************************************)
(* Stack.startPacketHandling, Stack.handleUDP: where a new flow goes       *)
(***************************************************************************)
DnsPort == 53

\* the textual forms of the addresses a flow may carry: "::1" and "::1:1"
FlowAddrs == {<<":", ":", "1">>, <<":", ":", "1", ":", "1">>}
FlowPorts == {1, 11, DnsPort}
FlowIds ==
    [proto : {"tcp", "udp"}, sip : FlowAddrs, sport : {1, 11},
     dip : FlowAddrs, dport : FlowPorts]

DecimalDigits == <<"0", "1", "2", "3", "4", "5", "6", "7", "8", "9">>

\* %d
RECURSIVE Itoa(_)
Itoa(n) ==
    IF n < 10 THEN <<DecimalDigits[n + 1]>>
    ELSE Itoa(n \div 10) \o <<DecimalDigits[(n % 10) + 1]>>

\* fmt.Sprintf("%s:%d", targetIP, targetPort): the key of the destination
\* alone
srcKeyDstOnly(f) == f.dip \o <<":">> \o Itoa(f.dport)

\* fmt.Sprintf("%s:%d->%s:%d", RemoteAddress, RemotePort, targetIP, targetPort)
srcKey(f) ==
    f.sip \o <<":">> \o Itoa(f.sport) \o <<"-", ">">>
    \o f.dip \o <<":">> \o Itoa(f.dport)

\* the TCP forwarder's callback: go s.handleTCP(r)
ForwardTCP(f) ==
    /\ dpOn
    /\ dpInDial = {}
    /\ f.proto = "tcp"
    /\ f \notin dpSeen
    /\ Cardinality(dpSeen) < MaxDispatch
    /\ dpSeen' = dpSeen \cup {f}
    /\ dpTcp' = dpTcp \cup {f}
    /\ UNCHANGED <<notDisp, dpOn, dpDns, dpNat, dpInDial, dpUplink>>

\* the UDP forwarder's callback, run by Device.readLoop inside
\* DeliverNetworkPacket, up to its call of GetOrCreate; epOk is whether
\* r.CreateEndpoint succeeded
handleUDP(f, epOk) ==
    /\ dpOn
    /\ dpInDial = {}
    /\ f.proto = "udp"
    /\ f \notin dpSeen
    /\ Cardinality(dpSeen) < MaxDispatch
    /\ dpSeen' = dpSeen \cup {f}
    /\ IF ~epOk
       THEN UNCHANGED <<dpDns, dpNat, dpInDial>>
       ELSE IF f.dport = DnsPort
       THEN /\ dpDns' = dpDns \cup {f}
            /\ UNCHANGED <<dpNat, dpInDial>>
       ELSE /\ dpNat' = dpNat \cup {<<srcKey(f), f>>}
            /\ dpInDial' = {f}
            /\ UNCHANGED dpDns
    /\ UNCHANGED <<notDisp, dpOn, dpTcp, dpUplink>>

\* s.nat.GetOrCreate returns to handleUDP after its dial and handshake, or
\* its wait on another caller's ready channel: localConn.Close() on an
\* error, the uplink goroutine otherwise; handleUDP returns to readLoop
HandleUDPReturn(f, ok) ==
    /\ dpInDial = {f}
    /\ dpInDial' = {}
    /\ dpUplink' = IF ok THEN dpUplink \cup {f} ELSE dpUplink
    /\ UNCHANGED <<notDisp, dpOn, dpSeen, dpTcp, dpDns, dpNat>>

HandleUDPEndpoint(f) == handleUDP(f, TRUE)
HandleUDPNoEndpoint(f) == handleUDP(f, FALSE)

DispNext ==
    \E f \in FlowIds :
        \/ ForwardTCP(f)
        \/ HandleUDPEndpoint(f)
        \/ HandleUDPNoEndpoint(f)
        \/ \E ok \in BOOLEAN : HandleUDPReturn(f, ok)

InitDisp == LifeInit /\ NatOff /\ TcpOff /\ SocksOff /\ TasksOff /\ EchOff /\
    FragOff /\ DnsOff /\ PnOff /\ CfgOff /\ VlessOff /\ SsOff /\ DispInit /\
    HerrOff /\ DlOff /\ LsOff

SpecDisp ==
    /\ InitDisp
    /\ [][DispNext]_vars

\* C26: every TCP flow delivered has a TCP session; a UDP flow to port 53
\* goes to the DNS tunnel when its endpoint could be created and never to
\* the NAT manager; every other UDP flow reaches the NAT manager only, and
\* two flows with the same NAT key agree on source address, source port,
\* destination address and destination port.
C26_FlowDispatch ==
    /\ \A f \in dpSeen : f.proto = "tcp" => f \in dpTcp
    /\ \A f \in dpTcp : f.proto = "tcp"
    /\ \A f \in dpDns : f.proto = "udp" /\ f.dport = DnsPort
    /\ \A e \in dpNat :
          /\ e[2].proto = "udp" /\ e[2].dport # DnsPort
          /\ e[2] \notin dpDns
    /\ \A f \in dpSeen :
          (f.proto = "udp" /\ f.dport = DnsPort) =>
              \A e \in dpNat : e[2] # f
    /\ \A d, e \in dpNat :
          d[1] = e[1] =>
              /\ d[2].sip = e[2].sip /\ d[2].sport = e[2].sport
              /\ d[2].dip = e[2].dip /\ d[2].dport = e[2].dport

\* two UDP flows to one destination from different source ports both
\* reached the NAT manager, under different keys
C26_Witness ==
    \E d, e \in dpNat :
        /\ d[2].dip = e[2].dip /\ d[2].dport = e[2].dport
        /\ d[2].sip = e[2].sip /\ d[2].sport # e[2].sport
        /\ d[1] # e[1]


(***************************************************************************)
(* Stack.handleTCP: the error returns before the relay                     *)
(***************************************************************************)
\* what a step of flow f leaves of the other flows
HtOthersKept(f) ==
    \A g \in HtFlows \ {f} :
        /\ htPc'[g] = htPc[g]
        /\ htRemote'[g] = htRemote[g]
        /\ htComplete'[g] = htComplete[g]
        /\ htEp'[g] = htEp[g]

\* r.Complete(sendReset)
HtCompleteAs(f, how) ==
    /\ htComplete' = [htComplete EXCEPT ![f] = how]
    /\ htCount' = [htCount EXCEPT ![f] = @ + 1]
\* r.Complete(true); return
HtReset(f) ==
    /\ HtCompleteAs(f, "reset")
    /\ htPc' = [htPc EXCEPT ![f] = "returned"]
\* remoteConn.Close(); r.Complete(true); return
HtCloseReset(f) ==
    /\ htRemote' = [htRemote EXCEPT ![f] = "closed"]
    /\ HtReset(f)

\* remoteConn, dialErr := s.dialer.Dial(); res is "ok", "err", or "panic"
\* for the nil dereference of Dial's WebSocket branch, which the deferred
\* recover of handleTCP catches: the handler ends there
HtDial(f, res) ==
    /\ htPc[f] = "dial"
    /\ res = "panic" => htCfg = "ws_no_tls"
    /\ res = "ok" => htCfg # "ws_no_tls"
    /\ CASE res = "ok" ->
              /\ htRemote' = [htRemote EXCEPT ![f] = "open"]
              /\ htPc' = [htPc EXCEPT ![f] = "handshake"]
              /\ UNCHANGED <<htComplete, htCount>>
         [] res = "err" ->
              /\ HtReset(f)
              /\ UNCHANGED htRemote
         [] OTHER ->
              /\ htRemote' = [htRemote EXCEPT ![f] = "leaked"]
              /\ htPc' = [htPc EXCEPT ![f] = "recovered"]
              /\ UNCHANGED <<htComplete, htCount>>
    /\ UNCHANGED <<notHerr, htEp, htCfg, htHeader>>

\* the protocol switch fails and the handler returns without closing
\* remoteConn
HtHandshakeLeak(f, ok) ==
    /\ htPc[f] = "handshake"
    /\ htCfg = "unknown" => ok
    /\ IF ok
       THEN /\ htPc' = [htPc EXCEPT ![f] = "write"]
            /\ htHeader' = [htHeader EXCEPT ![f] = (htCfg = "socks5")]
            /\ UNCHANGED <<htRemote, htComplete, htCount>>
       ELSE /\ HtReset(f)
            /\ UNCHANGED <<htRemote, htHeader>>
    /\ UNCHANGED <<notHerr, htEp, htCfg>>

\* the protocol switch: payload construction for the header protocols,
\* HandshakeSocks5 for socks5, nothing at all for a type no case matches
HtHandshake(f, ok) ==
    /\ htPc[f] = "handshake"
    /\ htCfg = "unknown" => ok
    /\ IF ok
       THEN /\ htPc' = [htPc EXCEPT ![f] = "write"]
            /\ htHeader' = [htHeader EXCEPT ![f] = (htCfg = "socks5")]
            /\ UNCHANGED <<htRemote, htComplete, htCount>>
       ELSE /\ HtCloseReset(f)
            /\ UNCHANGED htHeader
    /\ UNCHANGED <<notHerr, htEp, htCfg>>

\* if len(payload) > 0 { remoteConn.Write(payload) }; res is "none" when
\* there is no payload to write
HtWrite(f, res) ==
    /\ htPc[f] = "write"
    /\ res = "none" <=> htCfg \in {"socks5", "unknown"}
    /\ IF res = "err"
       THEN /\ HtCloseReset(f)
            /\ UNCHANGED htHeader
       ELSE /\ htPc' = [htPc EXCEPT ![f] = "endpoint"]
            /\ htHeader' = [htHeader EXCEPT ![f] = @ \/ res = "ok"]
            /\ UNCHANGED <<htRemote, htComplete, htCount>>
    /\ UNCHANGED <<notHerr, htEp, htCfg>>

\* ep, err := r.CreateEndpoint(&wq); r.Complete(false) on success
HtCreateEndpoint(f, ok) ==
    /\ htPc[f] = "endpoint"
    /\ IF ok
       THEN /\ htEp' = [htEp EXCEPT ![f] = "open"]
            /\ HtCompleteAs(f, "accepted")
            /\ htPc' = [htPc EXCEPT ![f] = "relay"]
            /\ UNCHANGED htRemote
       ELSE /\ HtCloseReset(f)
            /\ UNCHANGED htEp
    /\ UNCHANGED <<notHerr, htCfg, htHeader>>

HerrNext ==
    \E f \in HtFlows :
        \/ \E res \in {"ok", "err", "panic"} : HtDial(f, res)
        \/ \E ok \in BOOLEAN : HtHandshake(f, ok)
        \/ \E res \in {"none", "ok", "err"} : HtWrite(f, res)
        \/ \E ok \in BOOLEAN : HtCreateEndpoint(f, ok)

InitHerr == LifeInit /\ NatOff /\ TcpOff /\ SocksOff /\ TasksOff /\ EchOff /\
    FragOff /\ DnsOff /\ PnOff /\ CfgOff /\ VlessOff /\ SsOff /\ DispOff /\
    HerrInit /\ DlOff /\ LsOff

SpecHerr ==
    /\ InitHerr
    /\ [][HerrNext]_vars

\* C27: a flow whose handler returned on an error has its inbound request
\* completed with a reset, its outbound stream closed if it was obtained
\* and no inbound endpoint open; and the step of one flow changes nothing
\* of any other flow.
C27_TcpErrorCleanup ==
    /\ [](\A f \in HtFlows :
            htPc[f] = "returned" =>
                /\ htComplete[f] = "reset"
                /\ htRemote[f] # "open"
                /\ htEp[f] # "open")
    /\ [][\A f \in HtFlows : htPc'[f] # htPc[f] => HtOthersKept(f)]_vars

\* one flow returned after a failed handshake with its outbound closed,
\* one after a failed dial with no outbound, while a third relays with its
\* outbound and endpoint open
C27_Witness ==
    \E f, g, h \in HtFlows :
        /\ htPc[f] = "returned" /\ htRemote[f] = "closed"
        /\ htComplete[f] = "reset"
        /\ htPc[g] = "returned" /\ htRemote[g] = "none"
        /\ htPc[h] = "relay" /\ htRemote[h] = "open" /\ htEp[h] = "open"


(***************************************************************************)
(* HandshakeSocks5: the greeting and the error returns                     *)
(***************************************************************************)
\* C28: the first message HandshakeSocks5 writes is VER 5, then the count
\* of methods, then the methods: 0x00 alone without credentials, 0x00 and
\* 0x02 with credentials.
C28_GreetingMethods ==
    skOut # <<>> =>
        skOut[1] = IF skUser # <<>> THEN <<5, 2, 0, 2>> ELSE <<5, 1, 0>>

\* what the server's bytes say, where the stream is long enough to say it
SkMethod == IF Len(skStream) >= 2 /\ skStream[1] = 5 THEN skStream[2] ELSE -1
SkStatus == IF SkMethod = 2 /\ Len(skStream) >= 4 THEN skStream[4] ELSE -1
SkRep ==
    LET at == IF SkMethod = 2 THEN 6 ELSE 4
    IN IF Len(skStream) >= at THEN skStream[at] ELSE -1
SkSentConnect == \E i \in 1..Len(skOut) : skOut[i] = ConnectRequest

\* C29: HandshakeSocks5 sends no CONNECT request and returns an error when
\* the server selects a method other than 0x00 and 0x02 (0xFF included) or
\* answers the sub-negotiation with a non-zero status; it returns an error
\* when REP is not 0; and it returns success only after the greeting, the
\* sub-negotiation if 0x02 was selected, and the CONNECT request were
\* written in that order and a REP = 0 reply was read.
C29_HandshakeOutcomes ==
    /\ (SkMethod \notin {-1, 0, 2} \/ SkStatus \notin {-1, 0}) =>
           /\ ~SkSentConnect
           /\ skRet # "ok"
    /\ skRet = "ok" =>
           /\ SkMethod \in {0, 2}
           /\ SkRep = 0
           /\ skOut = IF SkMethod = 2
                      THEN <<Greeting(skUser), AuthRequest(skUser, skPass),
                             ConnectRequest>>
                      ELSE <<Greeting(skUser), ConnectRequest>>
    /\ (skPc = "sk_done" /\ SkRep \notin {-1, 0}) => skRet # "ok"


(***************************************************************************)
(* Dialer.Dial: TCP connect, uTLS, WebSocket, and what each failure leaves *)
(***************************************************************************)
DlGoto(d, label) == dlPc' = [dlPc EXCEPT ![d] = label]
DlReturn(d, conn, err) ==
    /\ dlRet' = [dlRet EXCEPT ![d] = [conn |-> conn, err |-> err]]
    /\ DlGoto(d, "returned")
\* conn.Close(); return nil, err
DlFail(d, err) ==
    /\ dlTcp' = [dlTcp EXCEPT ![d] = "closed"]
    /\ DlReturn(d, "none", err)
\* the ECH state of the process and of the calls
dlEch == <<dlEchCache, dlList, dlFetched, dlEchErr>>
\* the step after TLS: the WebSocket branch, or return conn, nil
DlAfterTls(d) == IF dlWs THEN DlGoto(d, "ws") ELSE DlGoto(d, "plain")

\* net.DialTimeout("tcp", targetAddr, 5s); then the test of Config.TLS
DlTcpConnect(d, ok) ==
    /\ dlPc[d] = "connect"
    /\ IF ~ok
       THEN /\ DlReturn(d, "none", "dial tcp")
            /\ UNCHANGED dlTcp
       ELSE /\ dlTcp' = [dlTcp EXCEPT ![d] = "open"]
            /\ UNCHANGED dlRet
            /\ IF dlTls = "ech" THEN DlGoto(d, "lookup")
               ELSE IF dlTls = "enabled" THEN DlGoto(d, "preset")
               ELSE DlAfterTls(d)
    /\ UNCHANGED <<notDl, dlTls, dlWs, dlSecure, dlEch>>

\* the errors resolveECHConfig returns: client.Do fails or the 3 s context
\* ends, the status is not 200, Unpack fails, no answer carries an ECH value
EchFailures ==
    {"context deadline exceeded", "DoH status", "unpack", "no ECH config found"}

\* echCacheMutex.RLock(); cached, ok := echCache[queryDomain]; RUnlock()
DlEchLookup(d) ==
    /\ dlPc[d] = "lookup"
    /\ IF dlEchCache # 0
       THEN /\ dlList' = [dlList EXCEPT ![d] = dlEchCache]
            /\ DlGoto(d, "preset")
       ELSE /\ DlGoto(d, "resolve")
            /\ UNCHANGED dlList
    /\ UNCHANGED <<notDl, dlTls, dlWs, dlTcp, dlSecure, dlRet, dlEchCache,
                   dlFetched, dlEchErr>>

\* a failed resolveECHConfig ends the call: conn.Close(); return nil, err
DlEchResolveStrict(d, list, err) ==
    /\ dlPc[d] = "resolve"
    /\ IF err = ""
       THEN /\ dlFetched' = [dlFetched EXCEPT ![d] = list]
            /\ dlList' = [dlList EXCEPT ![d] = list]
            /\ dlEchCache' = list
            /\ DlGoto(d, "preset")
            /\ UNCHANGED <<dlEchErr, dlTcp, dlRet>>
       ELSE /\ dlEchErr' = [dlEchErr EXCEPT ![d] = err]
            /\ DlFail(d, err)
            /\ UNCHANGED <<dlFetched, dlList, dlEchCache>>
    /\ UNCHANGED <<notDl, dlTls, dlWs, dlSecure>>

\* configs, err := resolveECHConfig(ctx, ECHDoHURL, queryDomain); on
\* err == nil && len(configs) > 0 the list is used and cached, otherwise a
\* warning is printed and echConfigList stays empty
DlEchResolve(d, list, err) ==
    /\ dlPc[d] = "resolve"
    /\ IF err = ""
       THEN /\ dlFetched' = [dlFetched EXCEPT ![d] = list]
            /\ dlList' = [dlList EXCEPT ![d] = list]
            /\ dlEchCache' = list
            /\ UNCHANGED dlEchErr
       ELSE /\ dlEchErr' = [dlEchErr EXCEPT ![d] = err]
            /\ UNCHANGED <<dlFetched, dlList, dlEchCache>>
    /\ DlGoto(d, "preset")
    /\ UNCHANGED <<notDl, dlTls, dlWs, dlTcp, dlSecure, dlRet>>

\* utls.UTLSIdToSpec, the ALPN and ECH extensions, uConn.ApplyPreset
DlApplyPreset(d, res) ==
    /\ dlPc[d] = "preset"
    /\ IF res = "ok"
       THEN DlGoto(d, "handshake") /\ UNCHANGED <<dlTcp, dlRet>>
       ELSE DlFail(d, res)
    /\ UNCHANGED <<notDl, dlTls, dlWs, dlSecure, dlEch>>

\* uConn.Handshake(); conn = uConn; isTLSEstablished = true
DlHandshake(d, ok) ==
    /\ dlPc[d] = "handshake"
    /\ IF ok
       THEN /\ dlSecure' = [dlSecure EXCEPT ![d] = TRUE]
            /\ DlAfterTls(d)
            /\ UNCHANGED <<dlTcp, dlRet>>
       ELSE /\ DlFail(d, "utls handshake failed")
            /\ UNCHANGED dlSecure
    /\ UNCHANGED <<notDl, dlTls, dlWs, dlEch>>

\* a failed websocket.Dial returns the error and leaves conn open
DlWebsocketLeak(d, ok) ==
    /\ dlPc[d] = "ws"
    /\ IF dlTls = "nil"
       THEN DlGoto(d, "panicked") /\ UNCHANGED <<dlTcp, dlRet>>
       ELSE IF ok
       THEN DlReturn(d, "ws", "") /\ UNCHANGED dlTcp
       ELSE DlReturn(d, "none", "websocket dial failed") /\ UNCHANGED dlTcp
    /\ UNCHANGED <<notDl, dlTls, dlWs, dlSecure, dlEch>>

\* the WebSocket branch: d.Config.TLS.ServerName is read through a nil
\* pointer when the configuration has no TLS section; websocket.Dial over
\* conn
DlWebsocket(d, ok) ==
    /\ dlPc[d] = "ws"
    /\ IF dlTls = "nil"
       THEN DlGoto(d, "panicked") /\ UNCHANGED <<dlTcp, dlRet>>
       ELSE IF ok
       THEN DlReturn(d, "ws", "") /\ UNCHANGED dlTcp
       ELSE DlFail(d, "websocket dial failed")
    /\ UNCHANGED <<notDl, dlTls, dlWs, dlSecure, dlEch>>

\* return conn, nil
DlReturnConn(d) ==
    /\ dlPc[d] = "plain"
    /\ DlReturn(d, IF dlSecure[d] THEN "tls" ELSE "tcp", "")
    /\ UNCHANGED <<notDl, dlTls, dlWs, dlTcp, dlSecure, dlEch>>

DlNext ==
    \E d \in DlCalls :
        \/ \E ok \in BOOLEAN : DlTcpConnect(d, ok)
        \/ DlEchLookup(d)
        \/ \E list \in EchLists, err \in EchFailures \cup {""} :
              DlEchResolve(d, list, err)
        \/ \E res \in {"ok", "failed to get uTLS spec", "apply preset failed"} :
              DlApplyPreset(d, res)
        \/ \E ok \in BOOLEAN : DlHandshake(d, ok)
        \/ \E ok \in BOOLEAN : DlWebsocket(d, ok)
        \/ DlReturnConn(d)

InitDl == LifeInit /\ NatOff /\ TcpOff /\ SocksOff /\ TasksOff /\ EchOff /\
    FragOff /\ DnsOff /\ PnOff /\ CfgOff /\ VlessOff /\ SsOff /\ DispOff /\
    HerrOff /\ DlInit /\ LsOff

SpecDl ==
    /\ InitDl
    /\ [][DlNext]_vars

\* C30: a call of Dial that returned an error returned no connection and
\* left the TCP connection it opened closed; a call that returned a
\* connection returned no error, and its TCP connection is open.
C30_DialFailureCleanup ==
    \A d \in DlCalls :
        dlPc[d] = "returned" =>
            /\ dlRet[d].err # "" =>
                   (dlRet[d].conn = "none" /\ dlTcp[d] # "open")
            /\ dlRet[d].conn # "none" =>
                   (dlRet[d].err = "" /\ dlTcp[d] = "open")
            /\ dlRet[d].err # "" \/ dlRet[d].conn # "none"

\* one call failed in the WebSocket upgrade after TLS was established and
\* its TCP connection is closed, while another returned a WebSocket
\* connection
C30_Witness ==
    \E d, e \in DlCalls :
        /\ dlPc[d] = "returned" /\ dlSecure[d]
        /\ dlRet[d].err = "websocket dial failed" /\ dlTcp[d] = "closed"
        /\ dlPc[e] = "returned" /\ dlRet[e].conn = "ws"


(***************************************************************************)
(* Dialer.Dial: a failed ECH lookup                                        *)
(***************************************************************************)
\* C31: a call of Dial whose resolveECHConfig failed goes on to the uTLS
\* steps with an empty config list and its TCP connection open, and never
\* returns the resolver's error; a call whose resolveECHConfig succeeded
\* gives uTLS the list the resolver returned.
C31_EchBestEffort ==
    /\ [](\A d \in DlCalls :
            /\ dlEchErr[d] # "" =>
                   /\ dlList[d] = 0
                   /\ dlRet[d].err \notin EchFailures
                   /\ dlPc[d] \notin {"lookup", "resolve"}
            /\ dlFetched[d] # 0 => dlList[d] = dlFetched[d])
    /\ [][\A d \in DlCalls :
            (dlPc[d] = "resolve" /\ dlPc'[d] # "resolve") =>
                (dlPc'[d] = "preset" /\ dlTcp'[d] = "open")]_vars

\* one call returned a TLS connection after its lookup timed out, and
\* another was given the list its own lookup returned
C31_Witness ==
    \E d, e \in DlCalls :
        /\ dlEchErr[d] = "context deadline exceeded"
        /\ dlPc[d] = "returned" /\ dlRet[d].conn = "tls" /\ dlList[d] = 0
        /\ dlFetched[e] # 0 /\ dlList[e] = dlFetched[e]
        /\ dlPc[e] = "returned"


\* C37: no call of Dial panics, whatever the TLS section and the transport
\* of the configuration are: every call that leaves its steps has returned
\* a connection or an error.
C37_DialNeverPanics == \A d \in DlCalls : dlPc[d] # "panicked"


(***************************************************************************)
(* Handler.handleSocks5 and Handler.dialRemote: the local SOCKS5 inbound   *)
(***************************************************************************)
LsGoto(c, label) == lsPc' = [lsPc EXCEPT ![c] = label]
\* return from handleSocks5: HandleConnection's defer closes localConn
LsClose(c) ==
    /\ lsLocal' = [lsLocal EXCEPT ![c] = "closed"]
    /\ LsGoto(c, "returned")
\* localConn.Write of the reply with REP = 0x04, then return
LsRefuse(c) ==
    /\ lsReplies' = [lsReplies EXCEPT ![c] = Append(@, 4)]
    /\ LsClose(c)

\* the method negotiation and the CONNECT request of the local client
LsRequest(c, ok) ==
    /\ lsPc[c] = "request"
    /\ IF ok
       THEN LsGoto(c, "dial") /\ UNCHANGED lsLocal
       ELSE LsClose(c)
    /\ UNCHANGED <<notLs, lsType, lsRemote, lsReplies, lsOut, lsFwd>>

\* dialRemote: dialer.Dial()
LsDial(c, ok) ==
    /\ lsPc[c] = "dial"
    /\ IF ok
       THEN /\ lsRemote' = [lsRemote EXCEPT ![c] = "open"]
            /\ LsGoto(c, "handshake")
            /\ UNCHANGED <<lsLocal, lsReplies, lsOut>>
       ELSE /\ lsOut' = [lsOut EXCEPT ![c] = "dial failed"]
            /\ LsRefuse(c)
            /\ UNCHANGED lsRemote
    /\ UNCHANGED <<notLs, lsType, lsFwd>>

\* dialRemote: the protocol switch.  For the four header protocols
\* "payload, _ := Build...(...)" drops the builder's error and
\* handshakeErr is the result of remoteConn.Write(payload) alone; for
\* socks5 it is the result of HandshakeSocks5.  built: the builder returned
\* a header; io: the write, or the SOCKS5 handshake, succeeded
LsHandshake(c, built, io) ==
    /\ lsPc[c] = "handshake"
    /\ lsType = "socks5" => built
    /\ IF io
       THEN /\ lsOut' = [lsOut EXCEPT ![c] =
                            IF built THEN "ok" ELSE "header failed"]
            /\ LsGoto(c, "reply")
            /\ UNCHANGED <<lsRemote, lsLocal, lsReplies>>
       ELSE /\ lsOut' = [lsOut EXCEPT ![c] = "handshake failed"]
            /\ lsRemote' = [lsRemote EXCEPT ![c] = "closed"]
            /\ LsRefuse(c)
    /\ UNCHANGED <<notLs, lsType, lsFwd>>

\* localConn.Write of the reply with REP = 0x00
LsReply(c) ==
    /\ lsPc[c] = "reply"
    /\ lsReplies' = [lsReplies EXCEPT ![c] = Append(@, 0)]
    /\ LsGoto(c, "forward")
    /\ UNCHANGED <<notLs, lsType, lsRemote, lsLocal, lsOut, lsFwd>>

\* h.forward(localConn, reader, remoteConn) starts copying
LsForward(c) ==
    /\ lsPc[c] = "forward"
    /\ ~lsFwd[c]
    /\ lsFwd' = [lsFwd EXCEPT ![c] = TRUE]
    /\ UNCHANGED <<notLs, lsType, lsPc, lsRemote, lsLocal, lsReplies, lsOut>>

\* forward returns; defer remoteConn.Close(); return
LsFinish(c) ==
    /\ lsPc[c] = "forward"
    /\ lsFwd[c]
    /\ lsRemote' = [lsRemote EXCEPT ![c] = "closed"]
    /\ LsClose(c)
    /\ UNCHANGED <<notLs, lsType, lsReplies, lsOut, lsFwd>>

LsNext ==
    \E c \in LsConns :
        \/ \E ok \in BOOLEAN : LsRequest(c, ok)
        \/ \E ok \in BOOLEAN : LsDial(c, ok)
        \/ \E built \in BOOLEAN, io \in BOOLEAN : LsHandshake(c, built, io)
        \/ LsReply(c)
        \/ LsForward(c)
        \/ LsFinish(c)

InitLs == LifeInit /\ NatOff /\ TcpOff /\ SocksOff /\ TasksOff /\ EchOff /\
    FragOff /\ DnsOff /\ PnOff /\ CfgOff /\ VlessOff /\ SsOff /\ DispOff /\
    HerrOff /\ DlOff /\ LsInit

SpecLs ==
    /\ InitLs
    /\ [][LsNext]_vars

\* C32: the reply with REP = 0x00 is written only after the outbound was
\* dialed and its header or handshake succeeded, and forwarding starts only
\* after that reply; a connection whose dial, header or handshake failed
\* gets the reply with REP = 0x04 and nothing else, forwards nothing, and
\* is closed when the handler returns.
C32_LocalSocksOrdering ==
    \A c \in LsConns :
        /\ (\E i \in 1..Len(lsReplies[c]) : lsReplies[c][i] = 0) =>
               (lsOut[c] = "ok" /\ lsRemote[c] # "none")
        /\ lsFwd[c] => lsReplies[c] = <<0>>
        /\ lsOut[c] \in {"dial failed", "header failed", "handshake failed"} =>
               /\ ~lsFwd[c]
               /\ lsPc[c] = "returned" =>
                      (lsReplies[c] = <<4>> /\ lsLocal[c] = "closed")


(***************************************************************************)
(* UDPNatManager: whose entry a Delete(key) removes                        *)
(***************************************************************************)
\* C33: the Delete(key) of a failed winner and of an exiting reader finds
\* the table empty or holding that caller's own entry, and the Delete(key)
\* of the stale test finds it empty or holding the entry that was tested;
\* and a ready entry in the table has its reader running and its outbound
\* open.
C33_RemoveOwnEntry ==
    /\ [][\A c \in Callers :
            /\ (reader[c] = "alive" /\ reader'[c] = "exited") =>
                   natEntry \in {0, c}
            /\ (gpc[c] = "gc_faildel" /\ gpc'[c] # "gc_faildel") =>
                   natEntry \in {0, c}
            /\ (gpc[c] = "gc_check" /\ gres'[c].err = "session stale") =>
                   natEntry \in {0, gexisting[c]}]_vars
    /\ [](natEntry # 0 /\ Ready(sess[natEntry]) =>
            (reader[natEntry] = "alive" /\ connState[natEntry] = "open"))


\* C34: the sweeper removes a ready entry only when neither a downlink
\* datagram was read nor an uplink datagram was written within udpTimeout.
C34_UplinkKeepsAlive ==
    [][\A c \in Callers :
          (sess[c].removedBy = "" /\ sess'[c].removedBy = "sweeper"
             /\ sess[c].RemoteConn # 0) =>
              (sess[c].idle /\ ~sess[c].uplink)]_vars


(***************************************************************************)
(* Stack.Close and the DNS handlers in flight                              *)
(***************************************************************************)
\* C35: once Stack.Close has run the instance has no cached DNS connection,
\* and no handleRemoteDNS that was in flight stores one afterwards.
C35_NoDnsConnAfterStop == tkState = "closed" => tkDnsConn = "nil"


(***************************************************************************)
(* The UDP forwarder's callback and the proxy dial                         *)
(***************************************************************************)
\* C36: the callback of the UDP forwarder is never inside GetOrCreate,
\* waiting for a dial, a handshake or another caller's ready channel, so
\* that the next flow can always be dispatched.
C36_CallbackNeverWaits == dpInDial = {}


(***************************************************************************)
(* Stack.handleTCP: when the inbound connection is accepted                *)
(***************************************************************************)
\* C38: a flow is accepted (r.Complete(false), endpoint created) only with
\* its outbound open and the protocol header sent or the SOCKS5 handshake
\* done; and a flow whose handler has ended, or has reached the relay, had
\* r.Complete called exactly once: with reset when the handler ended
\* before the relay, without reset at the relay.
C38_AcceptAfterHandshake ==
    \A f \in HtFlows :
        /\ (htComplete[f] = "accepted" \/ htEp[f] = "open") =>
               (htRemote[f] = "open" /\ htHeader[f])
        /\ htPc[f] \in {"returned", "recovered"} =>
               (htCount[f] = 1 /\ htComplete[f] = "reset")
        /\ htPc[f] = "relay" =>
               (htCount[f] = 1 /\ htComplete[f] = "accepted")

====
